---- MODULE Spec2Model ----
(***************************************************************************)
(* Azimuth Lore Map: the Entry Store, its Reference Graph and Search Index *)
(* (lore.db), the transactions that write them, and the per-conversation   *)
(* Orchestrator.                                                           *)
(*                                                                         *)
(* Strings the store manipulates (names, slugs) are sequences of           *)
(* one-character strings, so that slug derivation is computed.             *)
(***************************************************************************)
EXTENDS Integers, Sequences, FiniteSets, TLC

VARIABLES
    entries,    \* rows of table entries
    refs,       \* rows of table references
    fts,        \* rows of the full-text index entries_fts
    nextId,     \* source of fresh entry ids (UUIDs)
    clock,      \* datetime('now'), advanced by every successful write
    result,     \* response of the last tool call
    txn,        \* per writer: the transaction of the tool call it is in
    view,       \* what the last concurrent read returned
    declared,   \* history: each written row with the edge set its write
                \* declared
    orch_state, \* the Orchestrator's state for the conversation
    accumulator,\* fields extracted so far for the entry being assembled
    context,    \* what the Orchestrator handed the conversation model for
                \* the current turn
    producer,   \* the producer-model call of the current turn
    approval,   \* the approval signals handled for the entry under review
    inbox,      \* user messages received and not yet dispatched
    next_msg,   \* arrival number of the next user message
    in_flight,  \* messages whose classification, extraction or assembly
                \* is outstanding
    dispatched, \* history: messages in the order they were dispatched
    applied,    \* history: messages in the order their extraction was
                \* merged into the accumulator
    baseline,   \* history: the store as the last approved entry left it
    export,     \* output of the last export tool call
    id_history, \* history: every slug with the placeholder ID an export
                \* gave it
    find_result,\* output of the last find_related call
    related_history, \* history: the orders find_related returned since
                \* it is called with the slug and limit of the last call
    server_conversations, \* backend: conversation ids, newest first
    server_messages, \* backend: number of saved messages per conversation
    conversations,  \* useChat state: the conversation list
    activeConversationId, \* useChat state
    messages,       \* useChat state: the message list shown
    error,          \* useChat state
    isStreaming,    \* useStream state
    streamError,    \* useStream state: error
    abortControllerRef, \* useStream ref: the stream call whose controller
                    \* it holds, 0 for null
    requests,       \* API requests awaiting their response, each with
                    \* what its continuation captured
    streams,        \* calls of useStream.stream that have not settled
    next_conversation, \* id the backend gives the next conversation
    next_stream,    \* number of the next call of useStream.stream
    stream_return,  \* history: the last settled call of useStream.stream
    chat_event,     \* history: the call of sendMessage or submit the last
                    \* step made, and whether it returned at its guard
    mounted,        \* the component using the hooks is mounted
    value,          \* MessageInput state: the text of the input
    pendingPaste,   \* MessageInput state: the intercepted paste, with its
                    \* number in paste_log
    pasteSourceLabel, \* MessageInput state
    skipPastePrompt, \* MessageInput state: "don't ask again"
    lastProcessedQuoteIdRef, \* MessageInput ref
    quoteInsert,    \* ChatView state: the last quote request
    quoteInsertCounterRef, \* ChatView ref
    stored_skip,    \* localStorage: azimuth_skip_paste_source_prompt
    paste_log,      \* history: the paste events, in order
    insert_log,     \* history: the pastes and quotes put into the input
    server_prompts, \* backend: ids of table system_prompts
    server_default, \* backend: id of the row with is_default
    prompts,        \* SettingsPanel state: the prompts shown
    settings_error, \* SettingsPanel state: error
    prompt_requests,\* prompt requests on their way, each sent or answered
    default_asked,  \* history: the prompt whose Default box was checked last
    server_pins,    \* backend: pinned context rows
    pins,           \* ChatView state: the pins shown, newest first
    pinsError,      \* ChatView state: pinsError is not null
    pin_requests,   \* pin requests whose continuation is still to run
    next_pin,       \* source of fresh pin ids
    sse_sent,       \* history: the events the backend wrote and the newlines
                    \* after the last one
    response_body,  \* bytes of the response that reader.read() has yet to give
    buffer,         \* stream: buffer
    donePayload,    \* stream: donePayload
    delta_log,      \* contents handed to onDelta, in call order
    read_log,       \* history: the size of each read
    reader,         \* where stream is: idle, reading, returned or threw
    stream_result   \* what stream returned

storeVars == <<entries, refs, fts, nextId, clock>>
txnVars == <<txn, view, declared>>
queueVars == <<inbox, next_msg, in_flight, dispatched, applied>>
orchVars ==
    <<orch_state, accumulator, context, producer, approval, inbox, next_msg,
      in_flight, dispatched, applied, baseline>>
exportVars == <<export, id_history>>
relatedVars == <<find_result, related_history>>
chatVars ==
    <<server_conversations, server_messages, conversations,
      activeConversationId, messages, error, isStreaming, streamError,
      abortControllerRef, requests, streams, next_conversation,
      next_stream, stream_return, chat_event, mounted>>
inputVars ==
    <<value, pendingPaste, pasteSourceLabel, skipPastePrompt,
      lastProcessedQuoteIdRef>>
viewVars ==
    <<quoteInsert, quoteInsertCounterRef, stored_skip, paste_log, insert_log>>
settingsVars ==
    <<server_prompts, server_default, prompts, settings_error,
      prompt_requests, default_asked>>
pinVars == <<server_pins, pins, pinsError, pin_requests, next_pin>>
sseVars ==
    <<sse_sent, response_body, buffer, donePayload, delta_log, read_log,
      reader, stream_result>>
frontendVars ==
    <<chatVars, inputVars, viewVars, settingsVars, pinVars, sseVars>>
loreVars ==
    <<storeVars, result, txnVars, orchVars, exportVars, relatedVars>>
\* What the hooks and the message input leave alone.
panelVars == <<loreVars, settingsVars, pinVars, sseVars>>
vars ==
    <<entries, refs, fts, nextId, clock, result, txn, view, declared,
      orch_state, accumulator, context, producer, approval, inbox, next_msg,
      in_flight, dispatched, applied, baseline, export, id_history,
      find_result, related_history, chatVars, inputVars, viewVars,
      settingsVars, pinVars, sseVars>>

----------------------------------------------------------------------------
(* Bounds *)

MaxEntries == 2     \* rows in table entries
MaxWrites == 3      \* successful writes (create, update, delete) in a run
MaxMessages == 3    \* user messages of the conversation
MaxConversations == 2   \* conversations the backend ever creates
MaxSends == 2           \* calls of useStream.stream in a run
MaxRequests == 2        \* requests the user's calls leave outstanding
MaxPastes == 2          \* paste events in a run
MaxQuotes == 2          \* Quote actions in a run
MaxPrompts == 3         \* rows of table system_prompts
MaxPromptRequests == 2  \* prompt requests on their way
MaxPins == 2            \* pins created in a run
MaxPinRequests == 2     \* createPin and deletePin requests on their way
MaxDeltas == 2          \* delta events in a response
MaxRead == 5            \* bytes one read gives at most

(* Inputs the tools are called with *)

NoSlug == <<>>

NameInputs == { <<"K">>, <<"k">>, <<"k", " ", "2">> }
TypeInputs == { "npc", "starship" }
CategoryInputs == { "criminal", "station" }
StatusInputs == { "alive", "active" }
SummaryInputs == { <<"x">> }
ParentInputs == { NoSlug }

SlugInputs == { <<"k">>, <<"k", "-", "2">>, <<"k", "-", "2", "-", "2">> }

\* The references argument of create_entry and of an update.
ReferenceListInputs ==
    { {},
      { [target_slug |-> <<"k", "-", "2">>, target_type |-> "npc"] },
      { [target_slug |-> <<"k">>, target_type |-> "npc"],
        [target_slug |-> <<"k", "-", "2">>, target_type |-> "npc"] } }

\* The updates dict of update_entry: only the provided keys are present.
UpdateInputs ==
    { [ name |-> <<"S">> ], [ name |-> <<"k", " ", "2">> ],
      [ slug |-> <<"s">> ],
      [ status |-> "dead" ], [ category |-> "station" ],
      [ name |-> <<"S">>, category |-> "station" ],
      [ type |-> "location", category |-> "station", status |-> "active" ],
      [ type |-> "starship" ] }
    \cup { [ references |-> R ] : R \in ReferenceListInputs }

----------------------------------------------------------------------------
(* Schemas *)

ENTRY_TYPES == { "location", "faction", "npc", "event", "culture" }

ENTRY_SCHEMAS ==
    [ location |->
        [ categories |-> { "planet", "moon", "station", "settlement", "region" },
          statuses   |-> { "active", "abandoned", "contested", "restricted" } ],
      faction |->
        [ categories |-> { "corporation", "clan", "government", "insurgency",
                           "religious", "military", "other" },
          statuses   |-> { "active", "dissolved", "underground", "rising",
                           "declining" } ],
      npc |->
        [ categories |-> { "leader", "diplomat", "soldier", "civilian",
                           "criminal", "scholar", "other" },
          statuses   |-> { "alive", "dead", "missing", "unknown" } ],
      event |->
        [ categories |-> { "battle", "political", "disaster", "discovery",
                           "cultural", "personal" },
          statuses   |-> { "historical", "ongoing", "imminent", "secret" } ],
      culture |->
        [ categories |-> { "ethnic", "regional", "religious", "professional",
                           "other" },
          statuses   |-> { "active", "declining", "extinct", "evolving" } ] ]

\* Any category of any type: what a validator that ignores the type accepts.
AllCategories == UNION { ENTRY_SCHEMAS[t].categories : t \in ENTRY_TYPES }
AllStatuses == UNION { ENTRY_SCHEMAS[t].statuses : t \in ENTRY_TYPES }

validate_enums_any_type(type, category, status) ==
    /\ type \in ENTRY_TYPES
    /\ category \in AllCategories
    /\ status \in AllStatuses

validate_enums_skip_status(type, category, status) ==
    /\ type \in DOMAIN ENTRY_SCHEMAS
    /\ category \in ENTRY_SCHEMAS[type].categories

\* Step 2 of create_entry: type known, then category and status members of
\* that type's enums.
validate_enums(type, category, status) ==
    /\ type \in DOMAIN ENTRY_SCHEMAS
    /\ category \in ENTRY_SCHEMAS[type].categories
    /\ status \in ENTRY_SCHEMAS[type].statuses

----------------------------------------------------------------------------
(* Slugs *)

LowerOf ==
    [ c \in { "K", "S", "k", "s", "x", "2", "3", " ", "-" } |->
        CASE c = "K" -> "k"
          [] c = "S" -> "s"
          [] c = " " -> "-"
          [] OTHER -> c ]

\* Step 1 of create_entry: lowercase, hyphen-separated.
slugify(name) == [ i \in 1..Len(name) |-> LowerOf[name[i]] ]

DigitChars == << "0", "1", "2", "3", "4", "5", "6", "7", "8", "9" >>

RECURSIVE Decimal(_)
Decimal(n) ==
    IF n < 10 THEN << DigitChars[n + 1] >>
    ELSE Decimal(n \div 10) \o << DigitChars[(n % 10) + 1] >>

\* The n-th candidate slug of a base: the base itself, then base-2, base-3...
candidate_slug(base, n) ==
    IF n = 1 THEN base ELSE base \o << "-" >> \o Decimal(n)

slug_unique_off(table, slug) == TRUE

\* entries.slug is UNIQUE NOT NULL: an insert of a row whose slug is taken
\* is refused by the table.
slug_unique(table, slug) ==
    /\ slug # NoSlug
    /\ \A e \in table : e.slug # slug

\* Suffix retry: the attempt number of the first insert the table accepts.
RECURSIVE first_accepted(_, _, _)
first_accepted(table, base, n) ==
    IF slug_unique(table, candidate_slug(base, n)) THEN n
    ELSE first_accepted(table, base, n + 1)

generate_slug(table, name) ==
    candidate_slug(slugify(name), first_accepted(table, slugify(name), 1))

----------------------------------------------------------------------------
(* Tables *)

slugs_of(table) == { e.slug : e \in table }

entry_at(table, slug) == CHOOSE e \in table : e.slug = slug

fts_row(e) == [ slug |-> e.slug, name |-> e.name, summary |-> e.summary ]

edges_from(table, slug) == { r \in table : r.source_slug = slug }
edges_to(table, slug) == { r \in table : r.target_slug = slug }

reference_rows_skip_dangling(slug, references) ==
    { [ source_slug |-> slug, target_slug |-> ref.target_slug,
        target_type |-> ref.target_type ] :
        ref \in { x \in references : x.target_slug \in slugs_of(entries) } }

\* Step 5 of create_entry: one row of table references per reference.
reference_rows(slug, references) ==
    { [ source_slug |-> slug, target_slug |-> ref.target_slug,
        target_type |-> ref.target_type ] : ref \in references }

\* Step 3 of create_entry: targets that do not exist, one warning each.
dangling_targets(table, references) ==
    { ref.target_slug : ref \in references } \ slugs_of(table)

delete_keeps_edges(table, slug) == table

\* FOREIGN KEY (source_slug) REFERENCES entries(slug) ON DELETE CASCADE
on_delete_cascade(table, slug) == table \ edges_from(table, slug)

----------------------------------------------------------------------------
(* Responses *)

Response(op, status, slug, request) ==
    [ op |-> op, status |-> status, slug |-> slug, request |-> request,
      warnings |-> {}, valid |-> {}, broken |-> {}, orphaned |-> {} ]

NoRequest == [ type |-> "", category |-> "", status |-> "" ]

----------------------------------------------------------------------------
(* Tools *)

create_entry(type, name, category, status, summary, references, parent_slug) ==
    /\ Cardinality(entries) < MaxEntries
    /\ clock < MaxWrites
    /\ LET request == [ type |-> type, category |-> category,
                        status |-> status ]
       IN IF ~validate_enums(type, category, status)
          THEN /\ result' = Response("create", "ValidationError", NoSlug,
                                     request)
               /\ UNCHANGED storeVars
          ELSE LET slug == generate_slug(entries, name)
                   row == [ id |-> nextId, slug |-> slug, type |-> type,
                            name |-> name, category |-> category,
                            status |-> status, parent_slug |-> parent_slug,
                            summary |-> summary, created_at |-> clock + 1,
                            updated_at |-> clock + 1 ]
               IN /\ entries' = entries \cup { row }
                  /\ refs' = refs \cup reference_rows(slug, references)
                  /\ fts' = fts \cup { fts_row(row) }
                  /\ nextId' = nextId + 1
                  /\ clock' = clock + 1
                  /\ result' =
                        [ Response("create", "ok", slug, request)
                            EXCEPT !.warnings =
                                dangling_targets(entries, references) ]

\* The row after the provided fields are changed; slug, id and created_at
\* are not among the fields an update changes.
apply_updates_rederive_slug(row, updates, now) ==
    LET name == IF "name" \in DOMAIN updates THEN updates.name ELSE row.name
    IN [ row EXCEPT
           !.slug = slugify(name),
           !.type = IF "type" \in DOMAIN updates THEN updates.type ELSE @,
           !.name = name,
           !.category =
               IF "category" \in DOMAIN updates THEN updates.category ELSE @,
           !.status =
               IF "status" \in DOMAIN updates THEN updates.status ELSE @,
           !.summary =
               IF "summary" \in DOMAIN updates THEN updates.summary ELSE @,
           !.updated_at = now ]

apply_updates(row, updates, now) ==
    [ row EXCEPT
        !.type = IF "type" \in DOMAIN updates THEN updates.type ELSE @,
        !.name = IF "name" \in DOMAIN updates THEN updates.name ELSE @,
        !.category =
            IF "category" \in DOMAIN updates THEN updates.category ELSE @,
        !.status = IF "status" \in DOMAIN updates THEN updates.status ELSE @,
        !.parent_slug =
            IF "parent_slug" \in DOMAIN updates THEN updates.parent_slug
            ELSE @,
        !.summary =
            IF "summary" \in DOMAIN updates THEN updates.summary ELSE @,
        !.updated_at = now ]

update_entry(slug, updates) ==
    /\ clock < MaxWrites
    /\ UNCHANGED <<txnVars, orchVars, exportVars, relatedVars, frontendVars>>
    /\ IF slug \notin slugs_of(entries)
       THEN /\ result' = Response("update", "NotFoundError", slug, NoRequest)
            /\ UNCHANGED storeVars
       ELSE LET old == entry_at(entries, slug)
                new == apply_updates(old, updates, clock + 1)
            IN IF ~validate_enums(new.type, new.category, new.status)
               THEN /\ result' = Response("update", "ValidationError", slug,
                                          NoRequest)
                    /\ UNCHANGED storeVars
               ELSE /\ entries' = (entries \ { old }) \cup { new }
                    /\ fts' = (fts \ { fts_row(old) }) \cup { fts_row(new) }
                    /\ IF "references" \in DOMAIN updates
                       THEN /\ refs' = (refs \ edges_from(refs, slug))
                                  \cup reference_rows(slug, updates.references)
                            /\ result' =
                                 [ Response("update", "ok", slug, NoRequest)
                                     EXCEPT !.warnings = dangling_targets(
                                         entries, updates.references) ]
                       ELSE /\ refs' = refs
                            /\ result' =
                                 Response("update", "ok", slug, NoRequest)
                    /\ clock' = clock + 1
                    /\ UNCHANGED nextId

delete_entry(slug) ==
    /\ UNCHANGED <<txnVars, orchVars, exportVars, relatedVars, frontendVars>>
    /\ IF slug \notin slugs_of(entries)
       THEN /\ result' = Response("delete", "NotFoundError", slug, NoRequest)
            /\ UNCHANGED storeVars
       ELSE LET old == entry_at(entries, slug)
            IN /\ entries' = entries \ { old }
               /\ refs' = on_delete_cascade(refs, slug)
               /\ fts' = fts \ { fts_row(old) }
               /\ result' = [ Response("delete", "ok", slug, NoRequest)
                                EXCEPT !.orphaned = edges_to(refs', slug) ]
               /\ UNCHANGED <<nextId, clock>>

\* Valid: the target exists.  Broken: the target does not exist.
references_valid(entryTable, edges) ==
    { r \in edges : r.target_slug \in slugs_of(entryTable) }

references_broken_typed(entryTable, edges) ==
    { r \in edges :
        ~\E e \in entryTable :
            e.slug = r.target_slug /\ e.type = r.target_type }

references_broken(entryTable, edges) ==
    { r \in edges : r.target_slug \notin slugs_of(entryTable) }

\* Orphaned: the entry exists but nothing references it.
entries_orphaned(entryTable, refTable, scope) ==
    { s \in scope \cap slugs_of(entryTable) : edges_to(refTable, s) = {} }

\* slug = NoSlug: the optional slug is omitted and everything is validated.
validate_references(slug) ==
    LET edges == IF slug = NoSlug THEN refs ELSE edges_from(refs, slug)
        scope == IF slug = NoSlug THEN slugs_of(entries) ELSE { slug }
    IN /\ result' = [ Response("validate", "ok", slug, NoRequest)
                        EXCEPT !.valid = references_valid(entries, edges),
                               !.broken = references_broken(entries, edges),
                               !.orphaned =
                                   entries_orphaned(entries, refs, scope) ]
       /\ UNCHANGED storeVars
       /\ UNCHANGED <<txnVars, orchVars, exportVars, relatedVars, frontendVars>>

Writers == { "w1", "w2" }

NoRow == [ id |-> 0 ]

NoUpdates == [ none |-> TRUE ]

IdleTxn ==
    [ pc |-> "idle", op |-> "none", base |-> NoSlug, attempt |-> 0,
      collisions |-> 0, snapshot |-> 0, slug |-> NoSlug, old |-> NoRow,
      row |-> NoRow,
      updates |-> NoUpdates, references |-> {}, buffered |-> {} ]

NoView ==
    [ slug |-> NoSlug, entry |-> {}, references |-> {}, declared |-> {},
      racing |-> {} ]

InitStore ==
    /\ entries = {}
    /\ refs = {}
    /\ fts = {}
    /\ nextId = 1
    /\ clock = 0
    /\ result = Response("none", "ok", NoSlug, NoRequest)

InitTxn ==
    /\ txn = [ w \in Writers |-> IdleTxn ]
    /\ view = NoView
    /\ declared = {}

EmptyAccumulator ==
    [ type |-> "", name |-> NoSlug, category |-> "", status |-> "" ]

NoContext ==
    [ kind |-> "null", filled_fields |-> {}, missing_required |-> {},
      suggested_references |-> {} ]

NoFields == [ name |-> NoSlug, category |-> "", status |-> "" ]

\* before: the accumulator as the turn found it.
NoCall ==
    [ step |-> "none", outcome |-> "none", msg |-> 0, entry_type |-> "",
      fields |-> NoFields, before |-> EmptyAccumulator ]

NoApproval == [ signals |-> 0, confirmed |-> {} ]

InitOrch ==
    /\ orch_state = "IDLE"
    /\ accumulator = EmptyAccumulator
    /\ context = NoContext
    /\ producer = NoCall
    /\ approval = NoApproval
    /\ inbox = <<>>
    /\ next_msg = 1
    /\ in_flight = {}
    /\ dispatched = <<>>
    /\ applied = <<>>
    /\ baseline = <<{}, {}, {}>>

NoExport ==
    [ op |-> "none", status |-> "ok",
      request |-> [ slugs |-> <<>>, include_related |-> FALSE,
                    id_overrides |-> {} ],
      entries |-> <<>>, id_map |-> {} ]

InitExport ==
    /\ export = NoExport
    /\ id_history = {}

NoRelated == [ status |-> "none", slug |-> NoSlug, limit |-> 0, related |-> <<>> ]

InitRelated ==
    /\ find_result = NoRelated
    /\ related_history = {}

\* null of activeConversationId and of abortControllerRef.current
NoConversation == 0
NoController == 0

Request(kind, conversation_id, active, then) ==
    [ kind |-> kind, conversation_id |-> conversation_id, active |-> active,
      then |-> then ]

NoPayload == [ message_id |-> [ kind |-> "none", n |-> 0 ] ]

NoReturn == [ id |-> 0, outcome |-> "none", returned |-> NoPayload ]

NoEvent == [ op |-> "none", content |-> <<>>, refused |-> FALSE ]

\* The backend holds no conversation yet.
NoConversations ==
    /\ server_conversations = <<>>
    /\ server_messages = [ c \in 1..MaxConversations |-> 0 ]
    /\ next_conversation = 1

\* The backend holds one conversation with one exchange.
OneConversation ==
    /\ server_conversations = << 1 >>
    /\ server_messages = [ c \in 1..MaxConversations |-> IF c = 1 THEN 2 ELSE 0 ]
    /\ next_conversation = 2

\* The hook is mounted, its state is what useState gives it, and the mount
\* effect has called refresh.
InitHooks ==
    /\ conversations = <<>>
    /\ activeConversationId = NoConversation
    /\ messages = <<>>
    /\ error = ""
    /\ isStreaming = FALSE
    /\ streamError = ""
    /\ abortControllerRef = NoController
    /\ requests = { Request("refresh", NoConversation, NoConversation, "none") }
    /\ streams = {}
    /\ next_stream = 1
    /\ stream_return = NoReturn
    /\ chat_event = NoEvent
    /\ mounted = TRUE

InitChat == NoConversations /\ InitHooks

\* null of pendingPaste and of quoteInsert
NoPaste == [ text |-> <<>>, start |-> 0, end |-> 0, n |-> 0 ]
NoQuote == [ id |-> 0, text |-> <<>> ]

\* MessageInput is not rendered yet: its state is what useState and useRef
\* will give it.
InitInput ==
    /\ value = <<>>
    /\ pendingPaste = NoPaste
    /\ pasteSourceLabel = <<>>
    /\ skipPastePrompt = FALSE
    /\ lastProcessedQuoteIdRef = -1

InitView ==
    /\ quoteInsert = NoQuote
    /\ quoteInsertCounterRef = 0
    /\ stored_skip = FALSE
    /\ paste_log = <<>>
    /\ insert_log = <<>>

\* The settings panel is open and has loaded the prompts: the seeded
\* default prompt and the prompts created since.
InitSettings ==
    /\ server_prompts = 1..MaxPrompts
    /\ server_default = 1
    /\ prompts = { [ id |-> p, is_default |-> p = 1 ] : p \in 1..MaxPrompts }
    /\ settings_error = ""
    /\ prompt_requests = {}
    /\ default_asked = 0

\* ChatView before its first effect: no pins, nothing asked.
InitPins ==
    /\ server_pins = {}
    /\ pins = <<>>
    /\ pinsError = FALSE
    /\ pin_requests = {}
    /\ next_pin = 1

\* stream has not been called: nothing sent, nothing read.
NoDone == "null"
NoResponse == [ events |-> <<>>, tail |-> 0 ]

InitReader ==
    /\ sse_sent = NoResponse
    /\ response_body = <<>>
    /\ buffer = <<>>
    /\ donePayload = NoDone
    /\ delta_log = <<>>
    /\ read_log = <<>>
    /\ reader = "idle"
    /\ stream_result = NoDone

InitFrontend ==
    /\ InitChat /\ InitInput /\ InitView /\ InitSettings /\ InitPins
    /\ InitReader

Init ==
    /\ InitStore /\ InitTxn /\ InitOrch /\ InitExport /\ InitRelated
    /\ InitFrontend

\* The page is opened on a backend that holds a conversation.
InitSession ==
    /\ InitStore /\ InitTxn /\ InitOrch /\ InitExport /\ InitRelated
    /\ OneConversation /\ InitHooks /\ InitInput /\ InitView
    /\ InitSettings /\ InitPins /\ InitReader

----------------------------------------------------------------------------
(* Concurrent tool calls: every write is one transaction over an Entry and *)
(* its edges; reads run against the committed tables.                      *)

TxnNameInputs == { <<"K">>, <<"k">>, <<"k", " ", "2">> }

TxnReferenceListInputs == ReferenceListInputs \ { {} }
TxnSlugInputs == { <<"k">>, <<"k", "-", "2">> }

TxnUpdateInputs ==
    { [ name |-> <<"S">> ] }
    \cup { [ references |-> R ] : R \in TxnReferenceListInputs }

\* What a writer keeps of a transaction that has ended.
EndedTxn(t, pc) ==
    [ IdleTxn EXCEPT !.pc = pc, !.op = t.op, !.base = t.base,
                     !.slug = t.slug, !.collisions = t.collisions,
                     !.snapshot = t.snapshot ]

visible_with_uncommitted(committed, uncommitted) == committed \cup uncommitted

\* The rows a read sees: the committed ones, whatever the open transactions
\* have written so far.
visible(committed, uncommitted) == committed

open_writers == { w \in Writers : txn[w].pc \in { "row_written", "refs_written" } }
uncommitted_entries == { txn[w].row : w \in open_writers }
uncommitted_refs == UNION { txn[w].buffered : w \in open_writers }

begin_create(w, type, name, category, status, summary, references, parent_slug) ==
    /\ txn[w].pc \in { "idle", "done", "rejected" }
    /\ nextId <= MaxEntries
    /\ IF ~validate_enums(type, category, status)
       THEN /\ txn' = [ txn EXCEPT ![w] =
                          [ IdleTxn EXCEPT !.pc = "rejected",
                                           !.op = "create" ] ]
            /\ UNCHANGED nextId
       ELSE /\ txn' = [ txn EXCEPT ![w] =
                [ IdleTxn EXCEPT
                    !.pc = "begun", !.op = "create", !.snapshot = clock,
                    !.base = slugify(name), !.attempt = 1,
                    !.slug = candidate_slug(slugify(name), 1),
                    !.row = [ id |-> nextId, slug |-> NoSlug, type |-> type,
                              name |-> name, category |-> category,
                              status |-> status,
                              parent_slug |-> parent_slug,
                              summary |-> summary, created_at |-> 0,
                              updated_at |-> 0 ],
                    !.references = references ] ]
            /\ nextId' = nextId + 1
    /\ UNCHANGED <<entries, refs, fts, clock, result, view, declared, orchVars, exportVars, relatedVars, frontendVars>>

begin_update(w, slug, updates) ==
    /\ txn[w].pc \in { "idle", "done", "rejected" }
    /\ clock < MaxWrites
    /\ IF slug \notin slugs_of(entries)
       THEN txn' = [ txn EXCEPT ![w] =
                       [ IdleTxn EXCEPT !.pc = "rejected", !.op = "update",
                                        !.slug = slug ] ]
       ELSE LET old == entry_at(entries, slug)
                new == apply_updates(old, updates, 0)
            IN IF ~validate_enums(new.type, new.category, new.status)
               THEN txn' = [ txn EXCEPT ![w] =
                               [ IdleTxn EXCEPT !.pc = "rejected",
                                                !.op = "update",
                                                !.slug = slug ] ]
               ELSE txn' = [ txn EXCEPT ![w] =
                               [ IdleTxn EXCEPT
                                   !.pc = "begun", !.op = "update",
                                   !.snapshot = clock,
                                   !.slug = slug, !.old = old,
                                   !.updates = updates,
                                   !.references =
                                       IF "references" \in DOMAIN updates
                                       THEN updates.references ELSE {} ] ]
    /\ UNCHANGED <<storeVars, result, view, declared, orchVars, exportVars, relatedVars, frontendVars>>

\* The declarations of the rows that are committed or in an open
\* transaction.
live_declared(decl, committed, txns) ==
    { d \in decl :
        \/ d.row \in committed
        \/ \E w \in Writers :
              /\ txns[w].pc \in { "row_written", "refs_written" }
              /\ txns[w].row = d.row }

\* Step 4 of create_entry, and the row write of update_entry.
insert_entry_row(w) ==
    /\ txn[w].pc = "begun"
    /\ LET t == txn[w]
           row == IF t.op = "create"
                  THEN [ t.row EXCEPT !.slug = t.slug,
                                      !.created_at = clock + 1,
                                      !.updated_at = clock + 1 ]
                  ELSE apply_updates(t.old, t.updates, clock + 1)
           edges == IF t.op = "create" \/ "references" \in DOMAIN t.updates
                    THEN reference_rows(t.slug, t.references)
                    ELSE edges_from(refs, t.slug)
       IN /\ txn' = [ txn EXCEPT ![w] =
                        [ t EXCEPT !.pc = "row_written", !.row = row ] ]
          /\ declared' = live_declared(
                declared \cup { [ row |-> row, edges |-> edges ] },
                entries, txn')
    /\ UNCHANGED <<storeVars, result, view, orchVars, exportVars, relatedVars, frontendVars>>

\* Step 5 of create_entry, and the edge write of update_entry.
insert_reference_rows(w) ==
    /\ txn[w].pc = "row_written"
    /\ txn' = [ txn EXCEPT ![w] =
          [ @ EXCEPT
              !.pc = "refs_written",
              !.buffered = reference_rows(txn[w].slug, txn[w].references) ] ]
    /\ UNCHANGED <<storeVars, result, view, declared, orchVars, exportVars, relatedVars, frontendVars>>

commit_create(w) ==
    LET t == txn[w]
    IN IF slug_unique(entries, t.row.slug)
       THEN /\ entries' = entries \cup { t.row }
            /\ refs' = refs \cup t.buffered
            /\ fts' = fts \cup { fts_row(t.row) }
            /\ clock' = clock + 1
            /\ txn' = [ txn EXCEPT ![w] = EndedTxn(t, "done") ]
       ELSE \* collision: the transaction is rolled back and the create is
            \* retried with the next suffix
            /\ txn' = [ txn EXCEPT ![w] =
                  [ t EXCEPT
                      !.pc = "begun",
                      !.attempt = t.attempt + 1,
                      !.collisions = t.collisions + 1,
                      !.slug = candidate_slug(t.base, t.attempt + 1),
                      !.buffered = {} ] ]
            /\ UNCHANGED <<entries, refs, fts, clock>>

commit_update(w) ==
    LET t == txn[w]
        replace == "references" \in DOMAIN t.updates
    IN IF t.old \in entries
       THEN /\ entries' = (entries \ { t.old }) \cup { t.row }
            /\ refs' = IF replace
                       THEN (refs \ edges_from(refs, t.slug)) \cup t.buffered
                       ELSE refs
            /\ fts' = (fts \ { fts_row(t.old) }) \cup { fts_row(t.row) }
            /\ clock' = clock + 1
            /\ txn' = [ txn EXCEPT ![w] = EndedTxn(t, "done") ]
       ELSE \* the row changed under the transaction: rolled back, and run
            \* again on the committed row
            /\ txn' = [ txn EXCEPT ![w] =
                  [ t EXCEPT !.pc = "begun",
                             !.old = entry_at(entries, t.slug),
                             !.buffered = {} ] ]
            /\ UNCHANGED <<entries, refs, fts, clock>>

commit(w) ==
    /\ txn[w].pc = "refs_written"
    /\ IF txn[w].op = "create" THEN commit_create(w) ELSE commit_update(w)
    /\ declared' = live_declared(declared, entries', txn')
    /\ UNCHANGED <<nextId, result, view, orchVars, exportVars, relatedVars, frontendVars>>

\* get_entry: the entry and its outbound references.
read_entry(slug) ==
    /\ view' =
          [ slug |-> slug,
            entry |-> { e \in visible(entries, uncommitted_entries) :
                            e.slug = slug },
            references |->
                edges_from(visible(refs, uncommitted_refs), slug),
            declared |->
                { d.edges : d \in { x \in declared :
                    x.row \in visible(entries, uncommitted_entries)
                    /\ x.row.slug = slug } },
            racing |-> { w \in open_writers : txn[w].slug = slug } ]
    /\ UNCHANGED <<storeVars, result, txn, declared, orchVars, exportVars, relatedVars, frontendVars>>

writer_step(w) ==
    insert_entry_row(w) \/ insert_reference_rows(w) \/ commit(w)

begin_create_call(w, names) ==
    \E type \in { "npc" }, name \in names,
       references \in TxnReferenceListInputs :
        begin_create(w, type, name, "criminal", "alive", <<"x">>, references,
                     NoSlug)

\* Concurrent creates.
NextCreate ==
    \/ \E w \in Writers : begin_create_call(w, TxnNameInputs)
    \/ \E w \in Writers : insert_entry_row(w)
    \/ \E w \in Writers : insert_reference_rows(w)
    \/ \E w \in Writers : commit(w)

SpecCreate == Init /\ [][NextCreate]_vars

\* A tool call that has begun runs on: its handler is not abandoned.
SpecCreateFair == SpecCreate /\ \A w \in Writers : WF_vars(writer_step(w))

\* Reads concurrent with the creates and updates of one writer.
NextTxn ==
    \/ begin_create_call("w1", TxnNameInputs)
    \/ \E slug \in TxnSlugInputs, updates \in TxnUpdateInputs :
            begin_update("w1", slug, updates)
    \/ insert_entry_row("w1")
    \/ insert_reference_rows("w1")
    \/ commit("w1")
    \/ \E slug \in TxnSlugInputs : read_entry(slug)

SpecTxn == Init /\ [][NextTxn]_vars

\* POST /api/lore/entries: the tool called outside any conversation.
createEntry(type, name, category, status, summary, references, parent_slug) ==
    /\ create_entry(type, name, category, status, summary, references,
                    parent_slug)
    /\ UNCHANGED <<txnVars, orchVars, exportVars, relatedVars, frontendVars>>

Next ==
    \/ \E type \in TypeInputs, name \in NameInputs,
          category \in CategoryInputs, status \in StatusInputs,
          summary \in SummaryInputs, references \in ReferenceListInputs,
          parent_slug \in ParentInputs :
            createEntry(type, name, category, status, summary, references,
                        parent_slug)
    \/ \E slug \in SlugInputs, updates \in UpdateInputs :
            update_entry(slug, updates)
    \/ \E slug \in SlugInputs : delete_entry(slug)
    \/ \E slug \in SlugInputs \cup { NoSlug } : validate_references(slug)

Spec == Init /\ [][Next]_vars

----------------------------------------------------------------------------
(* Orchestrator: one conversation's lore pipeline *)

OrchStates ==
    { "IDLE", "CLASSIFYING", "EXTRACTING", "ASSEMBLING",
      "AWAITING_COMPOSER_OUTPUT", "AWAITING_APPROVAL", "COMMITTED",
      "DISCARDED" }

\* States in which the Orchestrator has no step outstanding and the next
\* event is the user's: a message, or an approval or rejection of the entry
\* presented for review.
AwaitingUser ==
    { "IDLE", "AWAITING_COMPOSER_OUTPUT", "AWAITING_APPROVAL", "COMMITTED" }

OrchTypeInputs == { "npc" }

\* Fields of create_entry that an entry cannot be saved without.
RequiredFields == { "name", "category", "status" }

\* What the producer model extracts from one message; a field the message
\* does not mention is left empty.
ExtractInputs ==
    { NoFields,
      [ name |-> <<"K">>, category |-> "", status |-> "" ],
      [ name |-> <<"k", " ", "2">>, category |-> "", status |-> "" ],
      [ name |-> NoSlug, category |-> "criminal", status |-> "alive" ],
      [ name |-> <<"k">>, category |-> "criminal", status |-> "dead" ] }

\* Ways a producer-model call fails.
Failures == { "error", "timeout", "malformed" }

\* Retries of the approval signal after a transient failure.
MaxRetries == 1

merge_fields_latest_only(acc, fields) ==
    [ f \in DOMAIN acc |-> IF f \in DOMAIN fields THEN fields[f] ELSE acc[f] ]

\* Fields of the new extraction replace what was accumulated; fields the
\* extraction leaves empty keep their accumulated value.
merge_fields(acc, fields) ==
    [ f \in DOMAIN acc |->
        IF f \in DOMAIN fields /\ fields[f] # EmptyAccumulator[f]
        THEN fields[f] ELSE acc[f] ]

filled_fields(acc) ==
    { f \in RequiredFields : acc[f] # EmptyAccumulator[f] }

missing_required(acc) == RequiredFields \ filled_fields(acc)

suggested_references(table) ==
    { [ target_slug |-> e.slug, target_type |-> e.type ] : e \in table }

\* get_context_package
context_package(table, acc) ==
    [ kind |-> "package", filled_fields |-> filled_fields(acc),
      missing_required |-> missing_required(acc),
      suggested_references |-> suggested_references(table) ]

after_detect_intent_any(is_lore_related) == "EXTRACTING"

\* if not intent.is_lore_related: return None
after_detect_intent(is_lore_related) ==
    IF is_lore_related THEN "EXTRACTING" ELSE "IDLE"

may_save_unreviewed(state) ==
    state \in { "AWAITING_APPROVAL", "AWAITING_COMPOSER_OUTPUT" }

\* Only save entries when the user explicitly approves.
may_save(state) == state = "AWAITING_APPROVAL"

may_dispatch_always(state) == TRUE

\* A message is dispatched only when no step of an earlier message is
\* outstanding.
may_dispatch(state) == state \in AwaitingUser

\* A failed producer-model call is caught: the turn is handled as not
\* lore-related.
fail_open(failure) ==
    [ state |-> after_detect_intent(FALSE), context |-> NoContext ]

\* An approval for an entry that is already committed is detected by the
\* existence of its slug.
already_committed(table, name) == slugify(name) \in slugs_of(table)

\* A user message reaches the messages router; it waits in the
\* conversation's queue.
receive_message ==
    /\ next_msg <= MaxMessages
    /\ inbox' = Append(inbox, [ id |-> next_msg, waited |-> in_flight # {} ])
    /\ next_msg' = next_msg + 1
    /\ UNCHANGED <<storeVars, result, txnVars, exportVars, relatedVars, frontendVars, baseline, orch_state, accumulator,
                   context, producer, approval, in_flight, dispatched,
                   applied>>

\* The router runs the Orchestrator on the oldest waiting message before
\* the conversation model: every message is classified first.
process_message ==
    /\ inbox # <<>>
    /\ may_dispatch(orch_state)
    /\ orch_state' = "CLASSIFYING"
    /\ context' = NoContext
    /\ producer' =
         [ NoCall EXCEPT !.step = "classify", !.outcome = "pending",
                         !.msg = Head(inbox).id, !.before = accumulator ]
    /\ approval' = NoApproval
    /\ inbox' = Tail(inbox)
    /\ in_flight' = in_flight \cup { Head(inbox).id }
    /\ dispatched' = Append(dispatched, Head(inbox))
    /\ UNCHANGED <<storeVars, result, txnVars, exportVars, relatedVars, frontendVars, baseline, accumulator, next_msg,
                   applied>>

\* Step 1: the producer model's classification arrives.
detect_intent(is_lore_related, entry_type) ==
    /\ orch_state = "CLASSIFYING"
    /\ orch_state' = after_detect_intent(is_lore_related)
    /\ producer' =
         IF is_lore_related
         THEN [ producer EXCEPT !.step = "extract",
                                !.entry_type = entry_type ]
         ELSE [ producer EXCEPT !.outcome = "ok" ]
    /\ context' = NoContext
    /\ in_flight' = IF is_lore_related THEN in_flight ELSE {}
    /\ UNCHANGED <<storeVars, result, txnVars, exportVars, relatedVars, frontendVars, baseline, accumulator, approval, inbox,
                   next_msg, dispatched, applied>>

\* The classifier call errors, times out or answers with a malformed
\* response.
detect_intent_fails(failure) ==
    /\ orch_state = "CLASSIFYING"
    /\ orch_state' = fail_open(failure).state
    /\ context' = fail_open(failure).context
    /\ producer' = [ producer EXCEPT !.outcome = failure ]
    /\ in_flight' = {}
    /\ UNCHANGED <<storeVars, result, txnVars, exportVars, relatedVars, frontendVars, baseline, accumulator, approval, inbox,
                   next_msg, dispatched, applied>>

\* Step 2a: the producer model's extraction arrives and is accumulated.
extract_fields(fields) ==
    /\ orch_state = "EXTRACTING"
    /\ orch_state' = "ASSEMBLING"
    /\ accumulator' =
         merge_fields([ accumulator EXCEPT !.type = producer.entry_type ],
                      fields)
    /\ producer' = [ producer EXCEPT !.outcome = "ok", !.fields = fields ]
    /\ applied' = Append(applied, producer.msg)
    /\ UNCHANGED <<storeVars, result, txnVars, exportVars, relatedVars, frontendVars, baseline, context, approval, inbox,
                   next_msg, in_flight, dispatched>>

\* The extractor call errors, times out or answers with a malformed
\* response.
extract_fields_fails(failure) ==
    /\ orch_state = "EXTRACTING"
    /\ orch_state' = fail_open(failure).state
    /\ context' = fail_open(failure).context
    /\ producer' = [ producer EXCEPT !.outcome = failure ]
    /\ in_flight' = {}
    /\ UNCHANGED <<storeVars, result, txnVars, exportVars, relatedVars, frontendVars, baseline, accumulator, approval, inbox,
                   next_msg, dispatched, applied>>

\* Step 2b and step 3: the context package is built and handed over.
build_context ==
    /\ orch_state = "ASSEMBLING"
    /\ orch_state' = "AWAITING_COMPOSER_OUTPUT"
    /\ context' = context_package(entries, accumulator)
    /\ producer' = NoCall
    /\ in_flight' = {}
    /\ UNCHANGED <<storeVars, result, txnVars, exportVars, relatedVars, frontendVars, baseline, accumulator, approval, inbox,
                   next_msg, dispatched, applied>>

\* Step 4: with enough fields filled, the conversation model's turn ends
\* with the assembled entry presented for review.
present_for_review ==
    /\ orch_state = "AWAITING_COMPOSER_OUTPUT"
    /\ context.missing_required = {}
    /\ orch_state' = "AWAITING_APPROVAL"
    /\ UNCHANGED <<storeVars, result, txnVars, exportVars, relatedVars, frontendVars, baseline, accumulator, context,
                   producer, approval, queueVars>>

commit_entry_unchecked(confirmed) ==
    create_entry(accumulator.type, accumulator.name, accumulator.category,
                 accumulator.status, <<"x">>, confirmed, NoSlug)

commit_entry_all_suggested(confirmed) ==
    IF already_committed(entries, accumulator.name)
    THEN UNCHANGED <<storeVars, result>>
    ELSE create_entry(accumulator.type, accumulator.name,
                      accumulator.category, accumulator.status, <<"x">>,
                      context.suggested_references, NoSlug)

\* Step 5: the entry is saved with the accumulated fields and the
\* suggested references the user confirmed, unless it is there already.
commit_entry(confirmed) ==
    IF already_committed(entries, accumulator.name)
    THEN UNCHANGED <<storeVars, result>>
    ELSE create_entry(accumulator.type, accumulator.name,
                      accumulator.category, accumulator.status, <<"x">>,
                      confirmed, NoSlug)

\* The user approves the entry presented for review.
approve ==
    /\ may_save(orch_state)
    /\ \E confirmed \in SUBSET context.suggested_references :
          /\ approval' = [ signals |-> 1, confirmed |-> confirmed ]
          /\ commit_entry(confirmed)
    /\ orch_state' = "COMMITTED"
    /\ baseline' = <<entries', refs', fts'>>
    /\ UNCHANGED <<txnVars, exportVars, relatedVars, frontendVars, accumulator, context, producer, queueVars>>

\* The approval signal is delivered again, by the bounded retry after a
\* transient failure.
approve_replay ==
    /\ orch_state = "COMMITTED"
    /\ approval.signals \in 1..MaxRetries
    /\ approval' = [ approval EXCEPT !.signals = @ + 1 ]
    /\ commit_entry(approval.confirmed)
    /\ baseline' = <<entries', refs', fts'>>
    /\ UNCHANGED <<txnVars, exportVars, relatedVars, frontendVars, orch_state, accumulator, context, producer,
                   queueVars>>

cleared_keeps(acc) == acc

\* The accumulator is cleared for the discarded entry.
cleared(acc) == EmptyAccumulator

\* The user rejects the entry presented for review.
reject ==
    /\ orch_state = "AWAITING_APPROVAL"
    /\ orch_state' = "DISCARDED"
    /\ accumulator' = cleared(accumulator)
    /\ approval' = NoApproval
    /\ UNCHANGED <<storeVars, result, txnVars, exportVars, relatedVars, frontendVars, baseline, context, producer, queueVars>>

return_to_idle ==
    /\ orch_state = "DISCARDED"
    /\ orch_state' = "IDLE"
    /\ context' = NoContext
    /\ UNCHANGED <<storeVars, result, txnVars, exportVars, relatedVars, frontendVars, baseline, accumulator, producer,
                   approval, queueVars>>

NextOrch ==
    \/ receive_message
    \/ process_message
    \/ \E is_lore_related \in BOOLEAN, entry_type \in OrchTypeInputs :
          detect_intent(is_lore_related, entry_type)
    \/ \E failure \in Failures : detect_intent_fails(failure)
    \/ \E fields \in ExtractInputs : extract_fields(fields)
    \/ \E failure \in Failures : extract_fields_fails(failure)
    \/ build_context
    \/ present_for_review
    \/ approve
    \/ approve_replay
    \/ reject
    \/ return_to_idle

SpecOrch == Init /\ [][NextOrch]_vars

\* Every producer-model call carries a timeout, so each outstanding step
\* ends, and the router runs the Orchestrator on every waiting message.
OrchFairness ==
    /\ WF_vars(process_message)
    /\ WF_vars(\E is_lore_related \in BOOLEAN, entry_type \in OrchTypeInputs :
                  detect_intent(is_lore_related, entry_type))
    /\ WF_vars(\E fields \in ExtractInputs : extract_fields(fields))
    /\ WF_vars(build_context)
    /\ WF_vars(return_to_idle)

SpecOrchFair == SpecOrch /\ OrchFairness

----------------------------------------------------------------------------
(* Foundry export: placeholder IDs, relationship objects, export tools *)

ExportNameInputs == { <<"k">>, <<"k", " ", "2">> }

ExportSlugInputs == { <<"k">>, <<"k", "-", "2">>, <<"s">> }

\* id_overrides: slug -> known Foundry ID, as a set of pairs.
OverrideInputs ==
    { {}, { [ slug |-> <<"k">>, id |-> "0SQvO3BxP0Hs20tg" ] } }

BatchInputs ==
    { << <<"k">>, <<"k", "-", "2">> >>,
      << <<"s">>, <<"k">> >>,
      << <<"k", "-", "2">> >> }

slug_to_foundry_id_of_run(slug) ==
    IF clock % 2 = 0 THEN "0000000000000000" ELSE "1111111111111111"

\* hashlib.sha256(slug.encode()).hexdigest()[:16]
slug_to_foundry_id(slug) ==
    CASE slug = <<"k">> -> "8254c329a92850f6"
      [] slug = <<"k", "-", "2">> -> "ab8460920d12844a"
      [] slug = <<"k", "-", "3">> -> "dcd555df84435cfd"
      [] slug = <<"k", "-", "4">> -> "1d2e7baece283660"
      [] slug = <<"k", "-", "2", "-", "2">> -> "da13d784cb589c97"
      [] slug = <<"k", "-", "2", "-", "3">> -> "c97e15f11461cd05"
      [] slug = <<"k", "-", "2", "-", "4">> -> "036a95d24d3a4b04"
      [] slug = <<"s">> -> "043a718774c572bd"

mej_type_map(target_type) ==
    CASE target_type = "npc" -> "person"
      [] target_type = "location" -> "place"
      [] target_type = "faction" -> "organization"
      [] OTHER -> "person"

MEJ_PAGE_TYPES(type) ==
    CASE type = "npc" -> "person"
      [] type = "location" -> "place"
      [] type = "faction" -> "organization"
      [] type = "event" -> "text"
      [] type = "culture" -> "text"

formatter_map == { "npc", "location", "faction", "event", "culture" }

build_relationship_unresolved(target_slug, target_name, target_type) ==
    [ id |-> "0000000000000000",
      uuid |-> << "JournalEntry", "0000000000000000" >>,
      name |-> target_name,
      type |-> mej_type_map(target_type),
      target_slug |-> target_slug ]

\* The relationship object; target_slug is kept beside it to tell which
\* entry the object points at.
build_relationship(target_slug, target_name, target_type) ==
    [ id |-> slug_to_foundry_id(target_slug),
      uuid |-> << "JournalEntry", slug_to_foundry_id(target_slug) >>,
      name |-> target_name,
      type |-> mej_type_map(target_type),
      target_slug |-> target_slug ]

NoDocument ==
    [ status |-> "ValueError", slug |-> NoSlug, type |-> "",
      foundry_type |-> "", relationships |-> {} ]

\* FoundryFormatter.export_entry
export_entry(slug, id_overrides) ==
    IF slug \notin slugs_of(entries)
    THEN [ NoDocument EXCEPT !.slug = slug ]
    ELSE LET entry == entry_at(entries, slug)
             references ==
                 { ref \in edges_from(refs, slug) :
                     ref.target_slug \in slugs_of(entries) }
         IN IF entry.type \notin formatter_map
            THEN [ NoDocument EXCEPT !.slug = slug, !.type = entry.type ]
            ELSE [ status |-> "ok", slug |-> slug, type |-> entry.type,
                   foundry_type |-> MEJ_PAGE_TYPES(entry.type),
                   relationships |->
                     { build_relationship(
                           ref.target_slug,
                           entry_at(entries, ref.target_slug).name,
                           ref.target_type) : ref \in references } ]

\* The orders in which a query without ORDER BY may return the rows.
Orders(S) ==
    { order \in [ 1..Cardinality(S) -> S ] :
        \A i, j \in 1..Cardinality(S) : i # j => order[i] # order[j] }

exported_always(slug, id_overrides) == TRUE

\* try: export_entry(...) / except ValueError: pass
exported(slug, id_overrides) == export_entry(slug, id_overrides).status = "ok"

\* The documents of the slugs of the list that export, in the list's order.
documents_of(slugs, id_overrides) ==
    LET ok == SelectSeq(slugs, LAMBDA s : exported(s, id_overrides))
    IN [ i \in 1..Len(ok) |-> export_entry(ok[i], id_overrides) ]

\* id_map[slug] = slug_to_foundry_id(slug), for every slug that exported.
id_map_of(slugs, id_overrides) ==
    { [ slug |-> slugs[i], id |-> slug_to_foundry_id(slugs[i]) ] :
        i \in { j \in 1..Len(slugs) : exported(slugs[j], id_overrides) } }

\* The IDs of a manifest, each with the time of the export that gave it.
stamped(id_map) ==
    { [ slug |-> m.slug, id |-> m.id, at |-> clock ] : m \in id_map }

ExportOutput(op, status, request, documents, id_map) ==
    [ op |-> op, status |-> status, request |-> request,
      entries |-> documents, id_map |-> id_map ]

ExportRequest(slugs, include_related, id_overrides) ==
    [ slugs |-> slugs, include_related |-> include_related,
      id_overrides |-> id_overrides ]

\* export_to_foundry
export_to_foundry(slug, include_related, id_overrides) ==
    LET request == ExportRequest(<<slug>>, include_related, id_overrides)
        targets ==
            IF include_related
            THEN { ref.target_slug : ref \in edges_from(refs, slug) }
            ELSE {}
    IN /\ IF ~exported(slug, id_overrides)
          THEN /\ export' = ExportOutput("export_to_foundry", "ValueError",
                                         request, <<>>, {})
               /\ UNCHANGED id_history
          ELSE \E related \in Orders(targets) :
                 LET slugs == <<slug>> \o related
                 IN /\ export' =
                         ExportOutput("export_to_foundry", "ok", request,
                                      documents_of(slugs, id_overrides),
                                      id_map_of(slugs, id_overrides))
                    /\ id_history' =
                         id_history
                           \cup stamped(id_map_of(slugs, id_overrides))
       /\ UNCHANGED <<storeVars, result, txnVars, orchVars, relatedVars, frontendVars>>

\* export_batch_to_foundry: each slug of the list is exported on its own;
\* one that fails is left out.
export_batch_to_foundry(slugs, id_overrides) ==
    /\ export' =
         ExportOutput("export_batch_to_foundry", "ok",
                      ExportRequest(slugs, FALSE, id_overrides),
                      documents_of(slugs, id_overrides),
                      id_map_of(slugs, id_overrides))
    /\ id_history' = id_history \cup stamped(id_map_of(slugs, id_overrides))
    /\ UNCHANGED <<storeVars, result, txnVars, orchVars, relatedVars, frontendVars>>

NextExport ==
    \/ \E name \in ExportNameInputs, references \in ReferenceListInputs :
          createEntry("npc", name, "criminal", "alive", <<"x">>, references,
                      NoSlug)
    \/ \E slug \in ExportSlugInputs, include_related \in BOOLEAN,
          id_overrides \in OverrideInputs :
            export_to_foundry(slug, include_related, id_overrides)
    \/ \E slugs \in BatchInputs, id_overrides \in OverrideInputs :
            export_batch_to_foundry(slugs, id_overrides)

SpecExport == Init /\ [][NextExport]_vars

----------------------------------------------------------------------------
(* Relatedness: find_related *)

\* The four tiers of find_related, highest first; an entry in several tiers
\* sums their weights.
DirectWeight == 4
ParentWeight == 2
SharedWeight == 1

\* The text tier is the lowest: the Search Index score counts below one unit
\* of the lowest fixed weight.
TextScale == 2

RelatedLimitInputs == { 1, 5 }

RelatedSlugInputs == { <<"k">>, <<"k", "-", "2">>, <<"s">> }

\* Rows a store can hold after creates and deletes: slug k-2 is the second
\* entry named k or the entry named "k 2".
RelatedRowInputs ==
    { [ id |-> 1, slug |-> <<"k">>, type |-> "npc", name |-> <<"k">>,
        category |-> "criminal", status |-> "alive", parent_slug |-> NoSlug,
        summary |-> summary, created_at |-> 1, updated_at |-> 1 ] :
        summary \in { <<"x">>, <<"x", "y">> } }
    \cup
    { [ id |-> 2, slug |-> <<"k", "-", "2">>, type |-> "npc", name |-> name,
        category |-> "criminal", status |-> "alive",
        parent_slug |-> parent_slug, summary |-> summary, created_at |-> 2,
        updated_at |-> 2 ] :
        name \in { <<"k">>, <<"k", " ", "2">> },
        parent_slug \in { NoSlug, <<"k">> },
        summary \in { <<"x">>, <<"y">> } }
    \cup
    { [ id |-> 3, slug |-> <<"s">>, type |-> "npc", name |-> <<"s">>,
        category |-> "criminal", status |-> "alive",
        parent_slug |-> parent_slug, summary |-> summary, created_at |-> 3,
        updated_at |-> 3 ] :
        parent_slug \in { NoSlug, <<"k">> },
        summary \in { <<"x">>, <<"x", "y">> } }

RelatedEdgeInputs ==
    { [ source_slug |-> <<"k">>, target_slug |-> <<"k", "-", "2">>,
        target_type |-> "npc" ],
      [ source_slug |-> <<"k", "-", "2">>, target_slug |-> <<"k">>,
        target_type |-> "npc" ],
      [ source_slug |-> <<"s">>, target_slug |-> <<"k">>,
        target_type |-> "npc" ],
      [ source_slug |-> <<"s">>, target_slug |-> <<"k", "-", "3">>,
        target_type |-> "npc" ] }

\* Alphabetical order of names.
CharRank ==
    [ c \in { " ", "-", "2", "3", "k", "s", "x", "y" } |->
        CASE c = " " -> 0
          [] c = "-" -> 1
          [] c = "2" -> 2
          [] c = "3" -> 3
          [] c = "k" -> 4
          [] c = "s" -> 5
          [] c = "x" -> 6
          [] c = "y" -> 7 ]

RECURSIVE name_before(_, _)
name_before(a, b) ==
    IF a = <<>> THEN b # <<>>
    ELSE IF b = <<>> THEN FALSE
    ELSE IF a[1] = b[1] THEN name_before(Tail(a), Tail(b))
    ELSE CharRank[a[1]] < CharRank[b[1]]

tokens(text) == { text[i] : i \in 1..Len(text) }

\* Tier 1: a reference from the source to the entry or from the entry to the
\* source.
direct_reference(edges, source, e) ==
    \E r \in edges :
        \/ r.source_slug = source.slug /\ r.target_slug = e.slug
        \/ r.source_slug = e.slug /\ r.target_slug = source.slug

\* Tier 2: same parent_slug.
shared_parent(source, e) ==
    /\ source.parent_slug # NoSlug
    /\ e.parent_slug = source.parent_slug

\* Tier 3: the source and the entry reference the same target.
shared_reference(edges, source, e) ==
    \E r \in edges_from(edges, source.slug), q \in edges_from(edges, e.slug) :
        r.target_slug = q.target_slug

\* Tier 4: the Search Index queried with the source's own summary: the
\* number of the summary's terms found in the entry's indexed columns.
text_similarity(index, source, e) ==
    Cardinality({ t \in tokens(source.summary) :
        \E row \in index :
            /\ row.slug = e.slug
            /\ t \in tokens(row.name) \cup tokens(row.summary) })

graph_weight(edges, source, e) ==
    (IF direct_reference(edges, source, e) THEN DirectWeight ELSE 0)
    + (IF shared_parent(source, e) THEN ParentWeight ELSE 0)
    + (IF shared_reference(edges, source, e) THEN SharedWeight ELSE 0)

text_tier(index, source, e) ==
    IF text_similarity(index, source, e) < TextScale
    THEN text_similarity(index, source, e) ELSE TextScale - 1

related_score_text_only(edges, index, source, e) ==
    text_similarity(index, source, e)

\* The summed score, in units of 1 / TextScale of a weight.
related_score(edges, index, source, e) ==
    TextScale * graph_weight(edges, source, e) + text_tier(index, source, e)

related_candidates(table, edges, index, source) ==
    { e \in table \ { source } : related_score(edges, index, source, e) > 0 }

\* Descending by summed score, ties alphabetically by name.
ranked(edges, index, source, order) ==
    \A i, j \in 1..Len(order) :
        i < j =>
            \/ related_score(edges, index, source, order[i])
                 > related_score(edges, index, source, order[j])
            \/ /\ related_score(edges, index, source, order[i])
                    = related_score(edges, index, source, order[j])
               /\ ~name_before(order[j].name, order[i].name)

related_item(edges, index, source, e) ==
    [ slug |-> e.slug, name |-> e.name,
      score |-> related_score(edges, index, source, e),
      direct |-> direct_reference(edges, source, e),
      graph |-> graph_weight(edges, source, e),
      text |-> text_similarity(index, source, e) ]

first_n(order, limit) ==
    SubSeq(order, 1, IF Len(order) < limit THEN Len(order) ELSE limit)

find_related(slug, limit) ==
    /\ IF slug \notin slugs_of(entries)
       THEN /\ find_result' = [ NoRelated EXCEPT !.status = "not_found",
                                                 !.slug = slug,
                                                 !.limit = limit ]
            /\ related_history' = {}
       ELSE LET source == entry_at(entries, slug)
            IN \E order \in Orders(related_candidates(entries, refs, fts,
                                                      source)) :
                 /\ ranked(refs, fts, source, order)
                 /\ find_result' =
                      [ status |-> "ok", slug |-> slug, limit |-> limit,
                        related |->
                          [ i \in DOMAIN first_n(order, limit) |->
                              related_item(refs, fts, source, order[i]) ] ]
                 /\ related_history' =
                      (IF find_result.slug = slug /\ find_result.limit = limit
                       THEN related_history ELSE {})
                      \cup { [ i \in DOMAIN first_n(order, limit) |->
                                 order[i].slug ] }
    /\ UNCHANGED <<storeVars, result, txnVars, orchVars, exportVars,
                   frontendVars>>

\* A store the tools can have left behind: one row per slug, edges only from
\* rows that exist.
InitRelatedStore ==
    /\ entries \in { table \in SUBSET RelatedRowInputs :
                       \A a, b \in table : a.slug = b.slug => a = b }
    /\ refs \in { edges \in SUBSET RelatedEdgeInputs :
                    \A r \in edges : r.source_slug \in slugs_of(entries) }
    /\ fts = { fts_row(e) : e \in entries }
    /\ nextId = 4
    /\ clock = 3
    /\ result = Response("none", "ok", NoSlug, NoRequest)

NextRelated ==
    \E slug \in RelatedSlugInputs, limit \in RelatedLimitInputs :
        find_related(slug, limit)

\* The tool is called over a store that already holds entries and edges.
InitPopulated ==
    /\ InitRelatedStore /\ InitTxn /\ InitOrch /\ InitExport /\ InitRelated
    /\ InitFrontend

SpecRelated == InitPopulated /\ [][NextRelated]_vars

----------------------------------------------------------------------------
(* The chat client: hooks useChat and useStream over the conversations API *)

Whitespace == { " ", "\n" }

\* The text of the input as typed: blank, or a word with a space around it.
TypedInputs == { << " " >>, << " ", "h" >> }

SendInputs == { << " " >>, << "h" >> }

StreamOutcomes == { "done", "error", "network", "closed" }

TEMP_ASSISTANT_ID == [ kind |-> "temp-assistant-stream", n |-> 0 ]

RECURSIVE trimStart(_)
trimStart(text) ==
    IF text # <<>> /\ text[1] \in Whitespace THEN trimStart(Tail(text))
    ELSE text

RECURSIVE trimEnd(_)
trimEnd(text) ==
    IF text # <<>> /\ text[Len(text)] \in Whitespace
    THEN trimEnd(SubSeq(text, 1, Len(text) - 1))
    ELSE text

\* String.prototype.trim
trim(text) == trimEnd(trimStart(text))

ids_of(list) == { list[i] : i \in 1..Len(list) }

\* list[0]?.id ?? null
first_id(list) == IF list = <<>> THEN NoConversation ELSE list[1]

without(list, id) == SelectSeq(list, LAMBDA c : c # id)

\* GET /conversations/{id}: the messages the backend has saved.
detail_messages(conversation_id) ==
    [ i \in 1..server_messages[conversation_id] |->
        [ id |-> [ kind |-> "server", n |-> i ],
          conversation_id |-> conversation_id ] ]

activeConversation ==
    IF activeConversationId \in ids_of(conversations)
    THEN activeConversationId ELSE NoConversation

\* The effect on activeConversationId: it runs when the id changed, empties
\* the list for null and loads the conversation otherwise.
effect_requests(old, new) ==
    IF new # old /\ new # NoConversation
    THEN { Request("load", new, NoConversation, "none") }
    ELSE {}

effect_messages(old, new, list) ==
    IF new # old /\ new = NoConversation THEN <<>> ELSE list

\* The effect on streamError: a new error of the stream becomes the error
\* of the chat.
effect_error(old, new, current) ==
    IF new # old /\ new # "" THEN new ELSE current

\* The user calls a function that sends a request while few are pending.
may_request == Cardinality(requests) < MaxRequests

\* const LARGE_PASTE_THRESHOLD = 50
LARGE_PASTE_THRESHOLD == 50

\* Pasted texts: a word, and a text longer than the threshold.
PasteInputs == { << "s" >>, << "A" >> }

LabelInputs == { << " " >>, << "w" >> }

\* Selected texts given to Quote: blank, and a word.
QuoteInputs == { << " " >>, << "q" >> }

\* Characters a piece of text stands for.
char_count(c) == IF c = "A" THEN LARGE_PASTE_THRESHOLD + 1 ELSE 1

RECURSIVE length(_)
length(text) ==
    IF text = <<>> THEN 0 ELSE char_count(Head(text)) + length(Tail(text))

RECURSIVE quote_lines(_)
quote_lines(input) ==
    IF input = <<>> THEN <<>>
    ELSE IF Head(input) = "\n"
    THEN << "\n", "> " >> \o quote_lines(Tail(input))
    ELSE << Head(input) >> \o quote_lines(Tail(input))

\* input.split(/\r?\n/).map((line) => `> ${line}`).join('\n')
toBlockquote(input) == << "> " >> \o quote_lines(input)

buildReferenceBlock(label, text) ==
    << "[Reference from: " >> \o trim(label) \o << "]", "\n" >>
        \o trim(text) \o << "\n", "[/Reference]" >>

\* Math.max(0, Math.min(i, current.length))
clamp(i, n) == IF i < 0 THEN 0 ELSE IF i > n THEN n ELSE i

\* The updater of insertAtRange.
insertAtRange(current, text, start, end) ==
    LET before == SubSeq(current, 1, clamp(start, Len(current)))
        after == SubSeq(current, clamp(end, Len(current)) + 1, Len(current))
    IN before \o text \o after

\* The updater of insertQuoteAtCursor.
insertQuoteAtCursor(current, text, start, end) ==
    LET before == SubSeq(current, 1, clamp(start, Len(current)))
        after == SubSeq(current, clamp(end, Len(current)) + 1, Len(current))
        needsLeadingBreak ==
            before # <<>> /\ before[Len(before)] # "\n"
        leadingBreak ==
            IF needsLeadingBreak THEN << "\n", "\n" >> ELSE <<>>
    IN before \o leadingBreak \o toBlockquote(text) \o << "\n", "\n" >>
         \o after

\* textarea.selectionStart and selectionEnd: the caret stands at the end
\* of the text, where typing and every insertion leave it.
caret == Len(value)

Inserted(kind, n, wrapped, by) ==
    [ kind |-> kind, n |-> n, wrapped |-> wrapped, by |-> by ]

\* The effect on quoteInsert of MessageInput.
quote_due(request, last) ==
    /\ request # NoQuote
    /\ trim(request.text) # <<>>
    /\ request.id > last

\* ChatView renders MessageInput while a conversation is active: the input
\* keeps its state while it stays rendered, loses it when the active
\* conversation goes, and starts anew, effects included, when there is one
\* again. ChatView's own state and localStorage stay.
input_follows ==
    LET was == activeConversation # NoConversation
        now == activeConversationId' \in ids_of(conversations')
    IN IF was = now
       THEN UNCHANGED <<inputVars, viewVars>>
       ELSE /\ pendingPaste' = NoPaste
            /\ pasteSourceLabel' = <<>>
            /\ skipPastePrompt' = (now /\ stored_skip)
            /\ UNCHANGED <<quoteInsert, quoteInsertCounterRef, stored_skip,
                           paste_log>>
            /\ IF now /\ quote_due(quoteInsert, -1)
               THEN /\ lastProcessedQuoteIdRef' = quoteInsert.id
                    /\ value' =
                          insertQuoteAtCursor(<<>>, trim(quoteInsert.text),
                                              0, 0)
                    /\ insert_log' =
                          Append(insert_log,
                             Inserted("quote", quoteInsert.id, FALSE, "mount"))
               ELSE /\ lastProcessedQuoteIdRef' = -1
                    /\ value' = <<>>
                    /\ UNCHANGED insert_log

PinRequest(kind, conversation_id, pin) ==
    [ kind |-> kind, conversation_id |-> conversation_id, pin |-> pin ]

\* The getPins requests whose effect has not been cleaned up. The cleanup
\* sets cancelled, after which the continuation of loadPins sets no state:
\* a cancelled request is dropped here.
live_loads == { req \in pin_requests : req.kind = "get" }

\* ChatView's effect on activeConversation. It runs again when the object
\* changed: another conversation, none, or the same one out of a list that
\* the backend sent anew (fresh).
pins_follow(fresh) ==
    LET was == activeConversation
        now == IF activeConversationId' \in ids_of(conversations')
               THEN activeConversationId' ELSE NoConversation
    IN IF now = was /\ ~(fresh /\ now # NoConversation)
       THEN UNCHANGED pinVars
       ELSE /\ UNCHANGED <<server_pins, next_pin>>
            /\ IF now = NoConversation
               THEN /\ pins' = <<>>
                    /\ pinsError' = FALSE
                    /\ pin_requests' = pin_requests \ live_loads
               ELSE /\ pin_requests' =
                          (pin_requests \ live_loads)
                             \cup { PinRequest("get", now, 0) }
                    /\ UNCHANGED <<pins, pinsError>>

\* refresh from its await on; the mount effect is its only caller.
refresh_response(req, ok) ==
    /\ mounted
    /\ UNCHANGED <<loreVars, settingsVars, sseVars>>
    /\ chat_event' = NoEvent
    /\ stream_return' = NoReturn
    /\ req \in requests
    /\ req.kind = "refresh"
    /\ IF ok
       THEN LET list == server_conversations
                active == IF activeConversationId # NoConversation
                             /\ activeConversationId \in ids_of(list)
                          THEN activeConversationId
                          ELSE first_id(list)
            IN /\ conversations' = list
               /\ activeConversationId' = active
               /\ error' = ""
               /\ messages' =
                     effect_messages(activeConversationId, active, messages)
               /\ requests' = (requests \ { req })
                     \cup effect_requests(activeConversationId, active)
       ELSE /\ error' = "Request failed"
            /\ requests' = requests \ { req }
            /\ UNCHANGED <<conversations, activeConversationId, messages>>
    /\ UNCHANGED <<server_conversations, server_messages, isStreaming,
                   streamError, abortControllerRef, streams,
                   next_conversation, next_stream, mounted>>
    /\ input_follows
    /\ pins_follow(ok)

load_response(req, ok) ==
    /\ mounted
    /\ UNCHANGED panelVars
    /\ chat_event' = NoEvent
    /\ stream_return' = NoReturn
    /\ req \in requests
    /\ req.kind = "load"
    /\ IF ok /\ req.conversation_id \in ids_of(server_conversations)
       THEN /\ messages' = detail_messages(req.conversation_id)
            /\ error' = ""
       ELSE /\ error' = "Request failed"
            /\ messages' = <<>>
    /\ requests' = requests \ { req }
    /\ UNCHANGED <<server_conversations, server_messages, conversations,
                   activeConversationId, isStreaming, streamError, abortControllerRef, streams,
                   next_conversation, next_stream, mounted, inputVars, viewVars>>

selectConversation(conversationId) ==
    /\ mounted
    /\ may_request
    /\ UNCHANGED <<loreVars, settingsVars, sseVars>>
    /\ chat_event' = NoEvent
    /\ stream_return' = NoReturn
    /\ conversationId \in ids_of(conversations)
    /\ activeConversationId' = conversationId
    /\ requests' = requests
          \cup effect_requests(activeConversationId, conversationId)
    /\ UNCHANGED <<server_conversations, server_messages, conversations,
                   messages, error, isStreaming, streamError,
                   abortControllerRef, streams, next_conversation,
                   next_stream, mounted>>
    /\ input_follows
    /\ pins_follow(FALSE)

\* Creates the backend still answers: one per conversation id left.
creates_pending == Cardinality({ r \in requests : r.kind = "create" })

sends_pending ==
    Cardinality({ r \in requests : r.kind = "create" /\ r.then # "none" })

\* Requests are told apart by what they carry: a sendMessage that creates
\* while another one does is a second request.
send_tag ==
    IF sends_pending = 0 THEN "send" ELSE "send again"

createConversation ==
    /\ mounted
    /\ may_request
    /\ UNCHANGED panelVars
    /\ chat_event' = NoEvent
    /\ stream_return' = NoReturn
    /\ next_conversation + creates_pending <= MaxConversations
    /\ requests' = requests \cup
          { Request("create", NoConversation, NoConversation, "none") }
    /\ UNCHANGED <<server_conversations, server_messages, conversations,
                   activeConversationId, messages, error, isStreaming,
                   streamError, abortControllerRef, streams,
                   next_conversation, next_stream, mounted,
                   inputVars, viewVars>>

temp_messages(target) ==
    << [ id |-> [ kind |-> "temp-user", n |-> next_stream ],
         conversation_id |-> target ],
       [ id |-> TEMP_ASSISTANT_ID, conversation_id |-> target ] >>

\* sendMessage from the temporary messages on, with useStream.stream up to
\* its request: the list it appends to is the list as the updates before it
\* left it.
stream_started(target, list) ==
    /\ messages' = list \o temp_messages(target)
    /\ error' = ""
    /\ isStreaming' = TRUE
    /\ streamError' = ""
    /\ abortControllerRef' = next_stream
    /\ streams' = streams \cup
          { [ id |-> next_stream, conversation_id |-> target ] }
    /\ next_stream' = next_stream + 1

create_response(req, ok) ==
    /\ mounted
    /\ UNCHANGED <<loreVars, settingsVars, sseVars>>
    /\ chat_event' = NoEvent
    /\ stream_return' = NoReturn
    /\ req \in requests
    /\ req.kind = "create"
    /\ IF ok
       THEN LET created == next_conversation
            IN /\ server_conversations' = << created >> \o server_conversations
               /\ next_conversation' = next_conversation + 1
               /\ conversations' = << created >> \o conversations
               /\ activeConversationId' = created
               /\ requests' = (requests \ { req })
                     \cup effect_requests(activeConversationId, created)
               /\ IF req.then # "none"
                  THEN stream_started(created, <<>>)
                  ELSE /\ messages' = <<>>
                       /\ error' = ""
                       /\ UNCHANGED <<isStreaming, streamError, abortControllerRef,
                                      streams, next_stream>>
       ELSE /\ error' = "Request failed"
            /\ requests' = requests \ { req }
            /\ UNCHANGED <<server_conversations, next_conversation,
                           conversations, activeConversationId, messages,
                           isStreaming, streamError,
                           abortControllerRef, streams, next_stream>>
    /\ UNCHANGED <<server_messages, mounted>>
    /\ input_follows
    /\ pins_follow(FALSE)

deleteConversation(conversationId) ==
    /\ mounted
    /\ may_request
    /\ UNCHANGED panelVars
    /\ chat_event' = NoEvent
    /\ stream_return' = NoReturn
    /\ conversationId \in ids_of(conversations)
    /\ requests' = requests \cup
          { Request("delete", conversationId, activeConversationId, "none") }
    /\ UNCHANGED <<server_conversations, server_messages, conversations,
                   activeConversationId, messages, error, isStreaming,
                   streamError, abortControllerRef, streams,
                   next_conversation, next_stream, mounted,
                   inputVars, viewVars>>

\* The callback compares the id with the activeConversationId of the render
\* it was created in, which the request carries.
delete_response(req, ok) ==
    /\ mounted
    /\ UNCHANGED <<loreVars, settingsVars, sseVars>>
    /\ chat_event' = NoEvent
    /\ stream_return' = NoReturn
    /\ req \in requests
    /\ req.kind = "delete"
    /\ IF ok /\ req.conversation_id \in ids_of(server_conversations)
       THEN LET filtered == without(conversations, req.conversation_id)
                active == IF req.active = req.conversation_id
                          THEN first_id(filtered)
                          ELSE activeConversationId
            IN /\ server_conversations' =
                     without(server_conversations, req.conversation_id)
               /\ server_messages' =
                     [ server_messages EXCEPT ![req.conversation_id] = 0 ]
               /\ conversations' = filtered
               /\ activeConversationId' = active
               /\ messages' =
                     effect_messages(activeConversationId, active,
                        IF req.active = req.conversation_id
                        THEN <<>> ELSE messages)
               /\ error' = ""
               /\ requests' = (requests \ { req })
                     \cup effect_requests(activeConversationId, active)
       ELSE /\ error' = "Request failed"
            /\ requests' = requests \ { req }
            /\ UNCHANGED <<server_conversations, server_messages,
                           conversations, activeConversationId, messages>>
    /\ UNCHANGED <<isStreaming, streamError,
                   abortControllerRef, streams, next_conversation,
                   next_stream, mounted>>
    /\ input_follows
    /\ pins_follow(FALSE)

guard_off(content) == FALSE

guard_blank_only(content) == trim(content) = <<>>

\* if (!trimmed || isStreaming) return
send_refused(content) == trim(content) = <<>> \/ isStreaming

\* The body of sendMessage; each call reads the state of the render before
\* it.
send(content) ==
    IF send_refused(content)
    THEN UNCHANGED <<server_conversations, server_messages, conversations,
                     activeConversationId, messages, error, isStreaming,
                     streamError, abortControllerRef,
                     requests, streams, next_conversation, next_stream,
                     mounted>>
    ELSE IF activeConversationId = NoConversation
    THEN /\ may_request
         /\ next_conversation + creates_pending <= MaxConversations
         /\ next_stream + sends_pending <= MaxSends
         /\ requests' = requests \cup
               { Request("create", NoConversation, NoConversation, send_tag) }
         /\ UNCHANGED <<server_conversations, server_messages, conversations,
                        activeConversationId, messages, error, isStreaming,
                        streamError, abortControllerRef,
                        streams, next_conversation, next_stream,
                        mounted>>
    ELSE /\ next_stream + sends_pending <= MaxSends
         /\ stream_started(activeConversationId, messages)
         /\ UNCHANGED <<server_conversations, server_messages, conversations,
                        activeConversationId, requests, next_conversation,
                        mounted>>

\* sendMessage as ChatView calls it, from a quick action of the message
\* list, which is rendered while a conversation is active.
sendMessage(content) ==
    /\ mounted
    /\ UNCHANGED panelVars
    /\ activeConversation # NoConversation
    /\ stream_return' = NoReturn
    /\ chat_event' =
          [ op |-> "sendMessage", content |-> content,
            refused |-> send_refused(content) ]
    /\ send(content)
    /\ UNCHANGED <<inputVars, viewVars>>

\* MessageInput.submit, on Enter or the Send button; the input is rendered
\* while a conversation is active.
submit ==
    /\ mounted
    /\ UNCHANGED panelVars
    /\ stream_return' = NoReturn
    /\ activeConversation # NoConversation
    /\ UNCHANGED <<pendingPaste, pasteSourceLabel, skipPastePrompt,
                   lastProcessedQuoteIdRef, viewVars>>
    /\ chat_event' =
          [ op |-> "submit", content |-> value,
            refused |-> (trim(value) = <<>> \/ isStreaming) ]
    /\ IF trim(value) = <<>> \/ isStreaming
       THEN UNCHANGED <<server_conversations, server_messages, conversations,
                        activeConversationId, messages, error, isStreaming,
                        streamError, abortControllerRef,
                        requests, streams, next_conversation, next_stream,
                        mounted, value>>
       ELSE /\ value' = <<>>
            /\ send(trim(value))

onChange(text) ==
    /\ mounted
    /\ UNCHANGED panelVars
    /\ activeConversation # NoConversation
    /\ ~isStreaming
    /\ value' = text
    /\ UNCHANGED <<chatVars, pendingPaste, pasteSourceLabel,
                   skipPastePrompt, lastProcessedQuoteIdRef, viewVars>>

\* What the backend has saved when the call settles: the user's message
\* once the request reached it, the assistant's message with the done
\* event.
saved_by(outcome) ==
    CASE outcome = "done" -> 2
      [] outcome = "network" -> 0
      [] OTHER -> 1

error_of_any(outcome) ==
    IF outcome = "error" THEN "Streaming error" ELSE "Streaming failed"

\* catch of useStream.stream: the message of the error, none for an
\* AbortError and for a stream that ends without one.
error_of(outcome) ==
    CASE outcome = "error" -> "Streaming error"
      [] outcome = "network" -> "Streaming failed"
      [] OTHER -> ""

keep_placeholder(list) == list

\* setMessages(current.filter(message.id !== TEMP_ASSISTANT_ID))
remove_placeholder(list) == SelectSeq(list, LAMBDA m : m.id # TEMP_ASSISTANT_ID)

\* setMessages(current.map(... id: done.message_id ...))
replace_placeholder(list, message_id) ==
    [ i \in 1..Len(list) |->
        IF list[i].id = TEMP_ASSISTANT_ID
        THEN [ list[i] EXCEPT !.id = message_id ]
        ELSE list[i] ]

\* The call s of useStream.stream ends with the outcome: catch and finally
\* of stream, then sendMessage from the await on.
settle(s, outcome) ==
    LET exists == s.conversation_id \in ids_of(server_conversations)
        saved == IF exists THEN saved_by(outcome) ELSE 0
        payload ==
            IF outcome = "done"
            THEN [ message_id |->
                     [ kind |-> "server",
                       n |-> server_messages[s.conversation_id] + saved ] ]
            ELSE NoPayload
        failure == IF error_of(outcome) # "" THEN error_of(outcome)
                   ELSE streamError
    IN /\ outcome = "done" => exists
       /\ server_messages' =
             [ server_messages EXCEPT ![s.conversation_id] = @ + saved ]
       /\ streamError' = failure
       /\ error' = effect_error(streamError, failure, error)
       /\ abortControllerRef' = NoController
       /\ isStreaming' = FALSE
       /\ streams' = streams \ { s }
       /\ messages' =
             IF outcome = "done"
             THEN replace_placeholder(messages, payload.message_id)
             ELSE remove_placeholder(messages)
       /\ requests' = requests \cup
             IF outcome = "done"
             THEN { Request("reload", s.conversation_id, NoConversation,
                            "none") }
             ELSE {}
       /\ stream_return' =
             [ id |-> s.id, outcome |-> outcome, returned |-> payload ]

stream_settle(s, outcome) ==
    /\ mounted
    /\ UNCHANGED panelVars
    /\ chat_event' = NoEvent
    /\ s \in streams
    /\ settle(s, outcome)
    /\ UNCHANGED <<server_conversations, conversations, activeConversationId,
                   next_conversation, next_stream,
                   mounted, inputVars, viewVars>>

\* The Stop button, shown while isStreaming: the abort rejects the pending
\* fetch or read of the call that owns the controller, and that call
\* settles before the next event.
stop ==
    /\ mounted
    /\ UNCHANGED panelVars
    /\ chat_event' = NoEvent
    /\ isStreaming
    /\ IF \E s \in streams : s.id = abortControllerRef
       THEN settle(CHOOSE s \in streams : s.id = abortControllerRef,
                   "aborted")
       ELSE /\ abortControllerRef' = NoController
            /\ isStreaming' = FALSE
            /\ stream_return' = NoReturn
            /\ UNCHANGED <<server_messages, streamError, error, streams,
                           messages, requests>>
    /\ UNCHANGED <<server_conversations, conversations, activeConversationId,
                   next_conversation, next_stream, mounted,
                   inputVars, viewVars>>

\* The cleanup of useStream's effect aborts the controller of the ref.
unmount ==
    /\ mounted
    /\ UNCHANGED panelVars
    /\ chat_event' = NoEvent
    /\ mounted' = FALSE
    /\ IF \E s \in streams : s.id = abortControllerRef
       THEN settle(CHOOSE s \in streams : s.id = abortControllerRef,
                   "aborted")
       ELSE /\ stream_return' = NoReturn
            /\ UNCHANGED <<server_messages, streamError, error,
                           abortControllerRef, isStreaming, streams,
                           messages, requests>>
    /\ UNCHANGED <<server_conversations, conversations, activeConversationId,
                   next_conversation, next_stream,
                   inputVars, viewVars>>

\* Promise.all([getConversations(), getConversation(target)]) after a done
\* event; a rejection is not caught and sets nothing.
reload_response(req, ok) ==
    /\ mounted
    /\ UNCHANGED <<loreVars, settingsVars, sseVars>>
    /\ chat_event' = NoEvent
    /\ stream_return' = NoReturn
    /\ req \in requests
    /\ req.kind = "reload"
    /\ IF ok /\ req.conversation_id \in ids_of(server_conversations)
       THEN /\ conversations' = server_conversations
            /\ messages' = detail_messages(req.conversation_id)
       ELSE UNCHANGED <<conversations, messages>>
    /\ requests' = requests \ { req }
    /\ UNCHANGED <<server_conversations, server_messages,
                   activeConversationId, error, isStreaming, streamError, abortControllerRef, streams,
                   next_conversation, next_stream, mounted>>
    /\ input_follows
    /\ pins_follow(ok)

NextChat ==
    \/ \E req \in requests, ok \in BOOLEAN : refresh_response(req, ok)
    \/ \E req \in requests, ok \in BOOLEAN : load_response(req, ok)
    \/ \E c \in 1..MaxConversations : selectConversation(c)
    \/ createConversation
    \/ \E req \in requests, ok \in BOOLEAN : create_response(req, ok)
    \/ \E c \in 1..MaxConversations : deleteConversation(c)
    \/ \E req \in requests, ok \in BOOLEAN : delete_response(req, ok)
    \/ \E content \in SendInputs : sendMessage(content)
    \/ submit
    \/ \E text \in TypedInputs : onChange(text)
    \/ \E s \in streams, outcome \in StreamOutcomes : stream_settle(s, outcome)
    \/ stop
    \/ unmount
    \/ \E req \in requests, ok \in BOOLEAN : reload_response(req, ok)

SpecChat == Init /\ [][NextChat]_vars

----------------------------------------------------------------------------
(* The message input: pastes with a source label, and quotes *)

\* A paste into the textarea, which is enabled while no stream runs. A
\* paste that is not intercepted is inserted by the browser at the caret.
handlePaste(pastedText) ==
    /\ mounted
    /\ UNCHANGED <<panelVars, chatVars>>
    /\ activeConversation # NoConversation
    /\ ~isStreaming
    /\ Len(paste_log) < MaxPastes
    /\ pastedText # <<>>
    /\ IF skipPastePrompt
          \/ length(trim(pastedText)) <= LARGE_PASTE_THRESHOLD
       THEN /\ value' = insertAtRange(value, pastedText, caret, caret)
            /\ paste_log' =
                  Append(paste_log,
                         [ text |-> pastedText, intercepted |-> FALSE ])
            /\ UNCHANGED <<pendingPaste, pasteSourceLabel>>
       ELSE /\ pendingPaste' =
                  [ text |-> pastedText, start |-> caret, end |-> caret,
                    n |-> Len(paste_log) + 1 ]
            /\ pasteSourceLabel' = <<>>
            /\ paste_log' =
                  Append(paste_log,
                         [ text |-> pastedText, intercepted |-> TRUE ])
            /\ UNCHANGED value
    /\ UNCHANGED <<skipPastePrompt, lastProcessedQuoteIdRef, quoteInsert,
                   quoteInsertCounterRef, stored_skip, insert_log>>

\* The label field of the prompt, shown while a paste is pending.
onLabelChange(label) ==
    /\ mounted
    /\ UNCHANGED <<panelVars, chatVars>>
    /\ pendingPaste # NoPaste
    /\ pasteSourceLabel' = label
    /\ UNCHANGED <<value, pendingPaste, skipPastePrompt,
                   lastProcessedQuoteIdRef, viewVars>>

applyPendingPasteAsIs(by) ==
    /\ pendingPaste # NoPaste
    /\ value' =
          insertAtRange(value, pendingPaste.text, pendingPaste.start,
                        pendingPaste.end)
    /\ pendingPaste' = NoPaste
    /\ pasteSourceLabel' = <<>>
    /\ insert_log' =
          Append(insert_log, Inserted("paste", pendingPaste.n, FALSE, by))
    /\ UNCHANGED <<skipPastePrompt, lastProcessedQuoteIdRef, quoteInsert,
                   quoteInsertCounterRef, stored_skip, paste_log>>

\* The Skip button of the prompt.
onPastePlain ==
    /\ mounted
    /\ UNCHANGED <<panelVars, chatVars>>
    /\ applyPendingPasteAsIs("skip")

\* The timer of PASTE_PROMPT_AUTO_DISMISS_MS, started when the paste
\* became pending.
paste_timer ==
    /\ mounted
    /\ UNCHANGED <<panelVars, chatVars>>
    /\ applyPendingPasteAsIs("timer")

\* The Add button of the prompt, enabled while the label is not blank.
applyPendingPasteWithLabel ==
    /\ mounted
    /\ UNCHANGED <<panelVars, chatVars>>
    /\ pendingPaste # NoPaste
    /\ trim(pasteSourceLabel) # <<>>
    /\ value' =
          insertAtRange(value,
                        buildReferenceBlock(pasteSourceLabel,
                                            pendingPaste.text),
                        pendingPaste.start, pendingPaste.end)
    /\ pendingPaste' = NoPaste
    /\ pasteSourceLabel' = <<>>
    /\ insert_log' =
          Append(insert_log, Inserted("paste", pendingPaste.n, TRUE, "label"))
    /\ UNCHANGED <<skipPastePrompt, lastProcessedQuoteIdRef, quoteInsert,
                   quoteInsertCounterRef, stored_skip, paste_log>>

\* The "don't ask again" checkbox of the prompt; the effect on
\* skipPastePrompt stores it.
onToggleDontAskAgain(checked) ==
    /\ mounted
    /\ UNCHANGED <<panelVars, chatVars>>
    /\ pendingPaste # NoPaste
    /\ skipPastePrompt' = checked
    /\ stored_skip' = checked
    /\ UNCHANGED <<value, pendingPaste, pasteSourceLabel,
                   lastProcessedQuoteIdRef, quoteInsert,
                   quoteInsertCounterRef, paste_log, insert_log>>

\* ChatView.handleQuote, from the selection popover of a message shown, and the
\* effect on quoteInsert of MessageInput, which runs with the render that
\* follows.
handleQuote(text) ==
    /\ mounted
    /\ UNCHANGED <<panelVars, chatVars>>
    /\ activeConversation # NoConversation
    /\ messages # <<>>
    /\ quoteInsertCounterRef < MaxQuotes
    /\ IF trim(text) = <<>>
       THEN UNCHANGED <<inputVars, viewVars>>
       ELSE LET request ==
                    [ id |-> quoteInsertCounterRef + 1, text |-> trim(text) ]
            IN /\ quoteInsertCounterRef' = request.id
               /\ quoteInsert' = request
               /\ IF quote_due(request, lastProcessedQuoteIdRef)
                  THEN /\ lastProcessedQuoteIdRef' = request.id
                       /\ value' =
                             insertQuoteAtCursor(value, trim(request.text),
                                                 caret, caret)
                       /\ insert_log' =
                             Append(insert_log,
                                Inserted("quote", request.id, FALSE, "quote"))
                  ELSE UNCHANGED <<lastProcessedQuoteIdRef, value, insert_log>>
               /\ UNCHANGED <<pendingPaste, pasteSourceLabel,
                              skipPastePrompt, stored_skip, paste_log>>

\* The conversations come and go as in the chat client, with a backend
\* that answers; the user types one text.
NextInput ==
    \/ \E req \in requests : refresh_response(req, TRUE)
    \/ \E req \in requests : load_response(req, TRUE)
    \/ createConversation
    \/ \E req \in requests : create_response(req, TRUE)
    \/ \E c \in 1..MaxConversations : deleteConversation(c)
    \/ \E req \in requests : delete_response(req, TRUE)
    \/ onChange(<< "h" >>)
    \/ \E pastedText \in PasteInputs : handlePaste(pastedText)
    \/ \E label \in LabelInputs : onLabelChange(label)
    \/ onPastePlain
    \/ paste_timer
    \/ applyPendingPasteWithLabel
    \/ \E checked \in BOOLEAN : onToggleDontAskAgain(checked)
    \/ \E text \in QuoteInputs : handleQuote(text)

SpecInput == InitSession /\ [][NextInput]_vars

----------------------------------------------------------------------------
(* Pinned context: the pins of the active conversation in ChatView *)

\* The text selected in a message when Pin is chosen.
PinInputs == { << " " >>, << "h" >> }

Pin(id, conversation_id) == [ id |-> id, conversation_id |-> conversation_id ]

\* GET /api/conversations/:id/pins: the rows of the conversation, newest
\* first.
pins_of(conversation_id) ==
    LET rows == { pin \in server_pins : pin.conversation_id = conversation_id }
    IN CHOOSE list \in [1..Cardinality(rows) -> rows] :
          \A i, j \in 1..Cardinality(rows) : i < j => list[i].id > list[j].id

shown_pins == { pins[i] : i \in 1..Len(pins) }

\* loadPins from its await on, for a request that was not cancelled.
loadPins_response(req, ok) ==
    /\ mounted
    /\ UNCHANGED <<loreVars, settingsVars, chatVars, inputVars, viewVars, sseVars>>
    /\ req \in live_loads
    /\ pin_requests' = pin_requests \ { req }
    /\ IF ok
       THEN /\ pins' = pins_of(req.conversation_id)
            /\ pinsError' = FALSE
       ELSE /\ pinsError' = TRUE
            /\ pins' = <<>>
    /\ UNCHANGED <<server_pins, next_pin>>

\* handlePin up to its await.
handlePin(text) ==
    /\ mounted
    /\ UNCHANGED <<loreVars, settingsVars, chatVars, inputVars, viewVars, sseVars>>
    /\ activeConversation # NoConversation
    /\ messages # <<>>
    /\ next_pin <= MaxPins
    /\ Cardinality(pin_requests \ live_loads) < MaxPinRequests
    /\ IF trim(text) = <<>>
       THEN UNCHANGED pinVars
       ELSE /\ pin_requests' =
                  pin_requests
                     \cup { PinRequest("create", activeConversation, next_pin) }
            /\ next_pin' = next_pin + 1
            /\ UNCHANGED <<server_pins, pins, pinsError>>

prepend_created(created, current) == << created >> \o current

\* handlePin from its await on: the backend has stored the pin, or refused.
createPin_response(req, ok) ==
    /\ mounted
    /\ UNCHANGED <<loreVars, settingsVars, chatVars, inputVars, viewVars, sseVars>>
    /\ req \in pin_requests
    /\ req.kind = "create"
    /\ pin_requests' = pin_requests \ { req }
    /\ UNCHANGED next_pin
    /\ IF ok
       THEN LET created == Pin(req.pin, req.conversation_id)
            IN /\ server_pins' = server_pins \cup { created }
               /\ pins' = prepend_created(created, pins)
               /\ pinsError' = FALSE
       ELSE /\ pinsError' = TRUE
            /\ UNCHANGED <<server_pins, pins>>

\* handleUnpin up to its await: the unpin button of a pin that is shown.
handleUnpin(pinId) ==
    /\ mounted
    /\ UNCHANGED <<loreVars, settingsVars, chatVars, inputVars, viewVars, sseVars>>
    /\ activeConversation # NoConversation
    /\ \E pin \in shown_pins : pin.id = pinId
    /\ Cardinality(pin_requests \ live_loads) < MaxPinRequests
    /\ pin_requests' =
          pin_requests \cup { PinRequest("delete", activeConversation, pinId) }
    /\ UNCHANGED <<server_pins, pins, pinsError, next_pin>>

\* handleUnpin from its await on.
deletePin_response(req, ok) ==
    /\ mounted
    /\ UNCHANGED <<loreVars, settingsVars, chatVars, inputVars, viewVars, sseVars>>
    /\ req \in pin_requests
    /\ req.kind = "delete"
    /\ pin_requests' = pin_requests \ { req }
    /\ UNCHANGED next_pin
    /\ IF ok
       THEN /\ server_pins' =
                  { pin \in server_pins :
                       ~(pin.id = req.pin
                           /\ pin.conversation_id = req.conversation_id) }
            /\ pins' = SelectSeq(pins, LAMBDA pin : pin.id # req.pin)
            /\ pinsError' = FALSE
       ELSE /\ pinsError' = TRUE
            /\ UNCHANGED <<server_pins, pins>>

NextPins ==
    \/ \E req \in requests : refresh_response(req, TRUE)
    \/ \E req \in requests : load_response(req, TRUE)
    \/ createConversation
    \/ \E req \in requests : create_response(req, TRUE)
    \/ \E c \in 1..MaxConversations : selectConversation(c)
    \/ \E c \in 1..MaxConversations : deleteConversation(c)
    \/ \E req \in requests : delete_response(req, TRUE)
    \/ \E req \in pin_requests, ok \in BOOLEAN : loadPins_response(req, ok)
    \/ \E text \in PinInputs : handlePin(text)
    \/ \E req \in pin_requests, ok \in BOOLEAN : createPin_response(req, ok)
    \/ \E pinId \in 1..MaxPins : handleUnpin(pinId)
    \/ \E req \in pin_requests, ok \in BOOLEAN : deletePin_response(req, ok)

SpecPins == InitSession /\ [][NextPins]_vars

----------------------------------------------------------------------------
(* useStream: reading the server-sent events of a response *)

\* The events of a response: deltas, then done or an error, or neither when
\* the stream is cut.
DeltaInputs == { "a", "b" }

Delta(content) == [ type |-> "delta", content |-> content ]
DoneEvent == [ type |-> "done", content |-> "" ]
ErrorEvent == [ type |-> "error", content |-> "" ]

DeltaLists ==
    UNION { [1..n -> { Delta(c) : c \in DeltaInputs }] : n \in 0..MaxDeltas }

EventLists ==
    { deltas \o last : deltas \in DeltaLists,
                       last \in { <<>>, << DoneEvent >>, << ErrorEvent >> } }
        \ { <<>> }

\* The bytes of the body, as far as the reader tells them apart: a line
\* 'data: {json}' in two halves, and the newline.
Half(event, half) == [ event |-> event, half |-> half ]
NL == Half([ type |-> "newline", content |-> "" ], 0)

RECURSIVE newlines(_)
newlines(n) == IF n = 0 THEN <<>> ELSE << NL >> \o newlines(n - 1)

\* SSE format: each event is a data line followed by a blank line.
data_line(event) == << Half(event, 1), Half(event, 2) >>

RECURSIVE body_of(_, _)
body_of(events, tail) ==
    IF events = <<>> THEN <<>>
    ELSE IF Len(events) = 1 THEN data_line(events[1]) \o newlines(tail)
    ELSE data_line(Head(events)) \o newlines(2) \o body_of(Tail(events), tail)

\* String.prototype.split with a separator that is not empty.
RECURSIVE split(_, _)
split(text, separator) ==
    LET at(i) == SubSeq(text, i, i + Len(separator) - 1) = separator
        places == { i \in 1..(Len(text) - Len(separator) + 1) : at(i) }
    IN IF places = {} THEN << text >>
       ELSE LET i == CHOOSE i \in places : \A j \in places : i <= j
            IN << SubSeq(text, 1, i - 1) >>
                  \o split(SubSeq(text, i + Len(separator), Len(text)),
                           separator)

\* line.startsWith('data:')
is_data(line) == line # <<>> /\ line[1].half = 1

\* JSON.parse of the payload: the event of a whole data line; it throws on
\* a part of one.
json_parse(line) ==
    IF Len(line) = 2 /\ line[2].half = 2 /\ line[1].event = line[2].event
    THEN << line[1].event >> ELSE <<>>

events_of(rawEvent) ==
    LET lines == SelectSeq(split(rawEvent, << NL >>), LAMBDA l : l # <<>>)
        data == SelectSeq(lines, is_data)
    IN IF data = <<>> THEN <<>> ELSE json_parse(data[1])

RECURSIVE parse_each(_)
parse_each(rawEvents) ==
    IF rawEvents = <<>> THEN <<>>
    ELSE events_of(Head(rawEvents)) \o parse_each(Tail(rawEvents))

parseSseChunk(input) == parse_each(split(input, << NL, NL >>))

\* The two loops over chunks and events, until an error event throws.
RECURSIVE handle_events(_, _)
handle_events(events, state) ==
    IF events = <<>> \/ state.threw THEN state
    ELSE LET event == Head(events)
         IN handle_events(Tail(events),
               [ deltas |-> IF event.type = "delta" /\ event.content # ""
                            THEN Append(state.deltas, event.content)
                            ELSE state.deltas,
                 done |-> IF event.type = "done" THEN "payload"
                          ELSE state.done,
                 threw |-> event.type = "error" ])

remaining_dropped(chunks) == <<>>

\* buffer = chunks.pop() ?? ''
remaining(chunks) == chunks[Len(chunks)]

popped(chunks) == SubSeq(chunks, 1, Len(chunks) - 1)

\* One turn of the while loop: reader.read() gives the next n bytes.
read(n) ==
    /\ UNCHANGED <<loreVars, chatVars, inputVars, viewVars, settingsVars,
                   pinVars>>
    /\ reader = "reading"
    /\ n <= Len(response_body)
    /\ LET chunks == split(buffer \o SubSeq(response_body, 1, n), << NL, NL >>)
           state == handle_events(parse_each(popped(chunks)),
                       [ deltas |-> delta_log, done |-> donePayload,
                         threw |-> FALSE ])
       IN /\ buffer' = remaining(chunks)
          /\ delta_log' = state.deltas
          /\ donePayload' = state.done
          /\ reader' = IF state.threw THEN "threw" ELSE "reading"
    /\ response_body' = SubSeq(response_body, n + 1, Len(response_body))
    /\ read_log' = Append(read_log, n)
    /\ UNCHANGED <<sse_sent, stream_result>>

\* reader.read() gives done: the loop breaks and stream returns donePayload.
read_done ==
    /\ UNCHANGED <<loreVars, chatVars, inputVars, viewVars, settingsVars,
                   pinVars>>
    /\ reader = "reading"
    /\ response_body = <<>>
    /\ reader' = "returned"
    /\ stream_result' = donePayload
    /\ UNCHANGED <<sse_sent, response_body, buffer, donePayload, delta_log,
                   read_log>>

\* stream is called and the backend writes a response.
InitStream ==
    /\ InitStore /\ InitTxn /\ InitOrch /\ InitExport /\ InitRelated
    /\ InitChat /\ InitInput /\ InitView /\ InitSettings /\ InitPins
    /\ \E events \in EventLists, tail \in 0..2 :
          /\ sse_sent = [ events |-> events, tail |-> tail ]
          /\ response_body = body_of(events, tail)
    /\ buffer = <<>>
    /\ donePayload = NoDone
    /\ delta_log = <<>>
    /\ read_log = <<>>
    /\ reader = "reading"
    /\ stream_result = NoDone

NextStream ==
    \/ \E n \in 1..MaxRead : read(n)
    \/ read_done

SpecStream == InitStream /\ [][NextStream]_vars

----------------------------------------------------------------------------
(* The settings panel: system prompts *)

PromptRequest(kind, id, updates) ==
    [ kind |-> kind, id |-> id, updates |-> updates, phase |-> "sent",
      ok |-> FALSE, is_default |-> FALSE ]

\* The updates of handlePromptChange: { is_default: true } from the
\* checkbox, { content } from the text field.
PromptUpdates == { "is_default", "content" }

shown(id) == \E item \in prompts : item.id = id

shown_default(id) == \E item \in prompts : item.id = id /\ item.is_default

delete_enabled_always(id) == shown(id)

\* The Delete button: disabled={prompt.is_default}
delete_enabled(id) == shown(id) /\ ~shown_default(id)

\* handlePromptChange up to its request. The checkbox calls it when it
\* gets checked, the text field when it loses the focus.
handlePromptChange(promptId, updates) ==
    /\ UNCHANGED <<loreVars, chatVars, inputVars, viewVars, pinVars, sseVars>>
    /\ shown(promptId)
    /\ updates = "is_default" => ~shown_default(promptId)
    /\ Cardinality(prompt_requests) < MaxPromptRequests
    /\ prompt_requests' =
          prompt_requests \cup { PromptRequest("update", promptId, updates) }
    /\ default_asked' =
          IF updates = "is_default" THEN promptId ELSE default_asked
    /\ UNCHANGED <<server_prompts, server_default, prompts, settings_error>>

\* handleDeletePrompt up to its request.
handleDeletePrompt(promptId) ==
    /\ UNCHANGED <<loreVars, chatVars, inputVars, viewVars, pinVars, sseVars>>
    /\ delete_enabled(promptId)
    /\ Cardinality(prompt_requests) < MaxPromptRequests
    /\ prompt_requests' =
          prompt_requests \cup { PromptRequest("delete", promptId, "none") }
    /\ UNCHANGED <<server_prompts, server_default, prompts, settings_error,
                   default_asked>>

\* PATCH and DELETE /api/settings/prompts/{id}: the backend makes the
\* prompt the only default, refuses to delete the default, and answers
\* with the row.
prompt_served(req) ==
    /\ UNCHANGED <<loreVars, chatVars, inputVars, viewVars, pinVars, sseVars>>
    /\ req \in prompt_requests
    /\ req.phase = "sent"
    /\ LET found == req.id \in server_prompts
           refused == req.kind = "delete" /\ req.id = server_default
           ok == found /\ ~refused
           default == IF ok /\ req.updates = "is_default"
                      THEN req.id ELSE server_default
       IN /\ server_default' = default
          /\ server_prompts' =
                IF ok /\ req.kind = "delete"
                THEN server_prompts \ { req.id } ELSE server_prompts
          /\ prompt_requests' = (prompt_requests \ { req }) \cup
                { [ req EXCEPT !.phase = "answered", !.ok = ok,
                               !.is_default = (ok /\ default = req.id) ] }
    /\ UNCHANGED <<prompts, settings_error, default_asked>>

\* handlePromptChange and handleDeletePrompt from the await on.
prompt_response(req) ==
    /\ UNCHANGED <<loreVars, chatVars, inputVars, viewVars, pinVars, sseVars>>
    /\ req \in prompt_requests
    /\ req.phase = "answered"
    /\ prompt_requests' = prompt_requests \ { req }
    /\ IF ~req.ok
       THEN /\ settings_error' = "Request failed"
            /\ UNCHANGED prompts
       ELSE /\ settings_error' = ""
            /\ prompts' =
                  CASE req.kind = "delete" ->
                         { item \in prompts : item.id # req.id }
                    [] req.updates = "is_default" ->
                         { [ id |-> item.id, is_default |-> item.id = req.id ] :
                             item \in prompts }
                    [] OTHER ->
                         { IF item.id = req.id
                           THEN [ id |-> req.id, is_default |-> req.is_default ]
                           ELSE item : item \in prompts }
    /\ UNCHANGED <<server_prompts, server_default, default_asked>>

NextSettings ==
    \/ \E p \in 1..MaxPrompts, u \in PromptUpdates : handlePromptChange(p, u)
    \/ \E p \in 1..MaxPrompts : handleDeletePrompt(p)
    \/ \E req \in prompt_requests : prompt_served(req)
    \/ \E req \in prompt_requests : prompt_response(req)

SpecSettings == Init /\ [][NextSettings]_vars

----------------------------------------------------------------------------
(* Properties of the Entry Store and the Reference Graph *)

Suffixed(slug, base) ==
    /\ Len(slug) > Len(base) + 1
    /\ SubSeq(slug, 1, Len(base)) = base
    /\ slug[Len(base) + 1] = "-"
    /\ \A i \in (Len(base) + 2)..Len(slug) :
          \E d \in 1..10 : slug[i] = DigitChars[d]

SlugsDistinct == \A e1, e2 \in entries : e1.slug = e2.slug => e1 = e2

\* C1: whatever creates ran, no two Entries share a slug; a create whose
\* derived slug is taken stores its Entry under that slug with a numeric
\* suffix; and a create leaves every Entry that existed before it as it was.
C1_DistinctSlugsNoOverwrite ==
    [][ /\ SlugsDistinct'
        /\ (result'.op = "create" /\ result'.status = "ok") =>
              /\ entries \subseteq entries'
              /\ \E row \in entries' \ entries :
                    /\ entries' = entries \cup { row }
                    /\ row.slug = result'.slug
                    /\ IF slugify(row.name) \in slugs_of(entries)
                       THEN Suffixed(row.slug, slugify(row.name))
                       ELSE row.slug = slugify(row.name) ]_vars

C1_Witness ==
    /\ result.op = "create"
    /\ \E e1, e2 \in entries :
          /\ e1.name = <<"K">> /\ e1.slug = <<"k">>
          /\ e2.name = <<"k">> /\ e2.slug = <<"k", "-", "2">>
          /\ e1.id < e2.id

TripleInEnums(request) ==
    \E t \in ENTRY_TYPES :
        /\ request.type = t
        /\ request.category \in ENTRY_SCHEMAS[t].categories
        /\ request.status \in ENTRY_SCHEMAS[t].statuses

\* C3: a create succeeds exactly when its type is known and its category
\* and status are in that type's enums; a rejected create persists no Entry,
\* no reference edge and no index record.
C3_CreateIffInEnums ==
    [][ result'.op = "create" =>
          /\ result'.status = "ok" <=> TripleInEnums(result'.request)
          /\ result'.status = "ok" =>
                \E row \in entries' \ entries :
                    /\ row.slug = result'.slug
                    /\ row.type = result'.request.type
                    /\ row.category = result'.request.category
                    /\ row.status = result'.request.status
                    /\ fts_row(row) \in fts'
          /\ result'.status # "ok" =>
                /\ result'.status = "ValidationError"
                /\ entries' = entries /\ refs' = refs /\ fts' = fts ]_vars

C3_Witness ==
    /\ result.op = "create"
    /\ result.status = "ValidationError"
    /\ result.request = [ type |-> "npc", category |-> "station",
                          status |-> "alive" ]
    /\ entries # {}

RowInEnums(e) ==
    /\ e.type \in ENTRY_TYPES
    /\ e.category \in ENTRY_SCHEMAS[e.type].categories
    /\ e.status \in ENTRY_SCHEMAS[e.type].statuses

C5_SlugImmutable ==
    [][ \A e \in entries : \A e2 \in entries' :
          e2.id = e.id =>
            /\ e2.slug = e.slug
            /\ e2.created_at = e.created_at
            /\ \A r \in refs \cap refs' :
                  r.target_slug = e.slug =>
                    \A t \in entries' : t.slug = r.target_slug => t.id = e.id
      ]_vars

C5_Witness ==
    /\ result.op = "update"
    /\ result.status = "ok"
    /\ \E e \in entries :
          /\ e.slug = result.slug
          /\ e.name = <<"S">>
          /\ e.slug = <<"k">>
          /\ \E r \in refs : r.target_slug = e.slug

\* C6: validate(slug) of an Entry with N outbound references, M of them to
\* existing Entries, lists exactly the N-M with a missing target as broken
\* and exactly the M with an existing target as valid.
C6_ValidateCountsBroken ==
    (result.op = "validate" /\ result.slug # NoSlug) =>
        LET out == { r \in refs : r.source_slug = result.slug }
            hit == { r \in out : \E e \in entries : e.slug = r.target_slug }
        IN /\ Cardinality(result.broken) =
                 Cardinality(out) - Cardinality(hit)
           /\ Cardinality(result.valid) = Cardinality(hit)
           /\ result.broken = out \ hit
           /\ result.valid = hit

C6_Witness ==
    /\ result.op = "validate"
    /\ result.slug # NoSlug
    /\ Cardinality(result.broken) = 1
    /\ Cardinality(result.valid) = 1
    /\ \E r \in result.valid : r.target_slug # r.source_slug

EdgesHaveSource == \A r \in refs : r.source_slug \in slugs_of(entries)

\* C7: a delete removes the Entry and exactly the edges it is the source of;
\* every other Entry is left as it was and keeps its edges, and an edge to
\* the deleted Entry is in its source's validate broken-list afterwards.
\* In every state each edge's source_slug names an existing Entry.
C7_DeleteCascade ==
    [][ /\ EdgesHaveSource'
        /\ (result'.op = "delete" /\ result'.status = "ok") =>
              /\ refs' = { r \in refs : r.source_slug # result'.slug }
              /\ entries' = { e \in entries : e.slug # result'.slug }
              /\ entries' # entries
              /\ \A r \in refs' :
                    r.target_slug = result'.slug =>
                        /\ r \in result'.orphaned
                        /\ r \in references_broken(entries',
                                    edges_from(refs', r.source_slug)) ]_vars

C7_Witness ==
    /\ result.op = "delete"
    /\ result.status = "ok"
    /\ result.orphaned # {}
    /\ result.orphaned \subseteq refs
    /\ \E r \in result.orphaned :
          /\ r.target_slug = result.slug
          /\ r.source_slug \in slugs_of(entries)
          /\ Cardinality(edges_from(refs, r.source_slug)) = 2

\* C8: a create whose references name slugs that do not exist succeeds,
\* stores every declared edge and returns one warning per missing target;
\* a later create that takes such a slug makes the edge valid in its
\* source's validate list and writes nothing to the source Entry.
C8_DanglingWarnsThenValid ==
    [][ (result'.op = "create" /\ result'.status = "ok") =>
          LET declared_edges == edges_from(refs', result'.slug)
          IN /\ result'.warnings =
                   { r.target_slug : r \in declared_edges } \ slugs_of(entries)
             /\ \A t \in result'.warnings :
                   \E r \in refs' \ refs :
                       r.source_slug = result'.slug /\ r.target_slug = t
             /\ \A r \in refs :
                   r.target_slug = result'.slug =>
                     /\ r \in refs'
                     /\ r \in references_valid(entries',
                                 edges_from(refs', r.source_slug))
                     /\ r \notin references_broken(entries',
                                 edges_from(refs', r.source_slug))
                     /\ entry_at(entries', r.source_slug) =
                            entry_at(entries, r.source_slug) ]_vars

C8_Witness ==
    /\ result.op = "create"
    /\ result.status = "ok"
    /\ result.slug = <<"k", "-", "2">>
    /\ \E r \in refs :
          /\ r.target_slug = result.slug
          /\ r.source_slug = <<"k">>
          /\ \E a, b \in entries :
                a.slug = r.source_slug /\ b.slug = result.slug /\ a.id < b.id


----------------------------------------------------------------------------
(* Properties of concurrent tool calls *)

CreateDone(w) == txn[w].op = "create" /\ txn[w].pc = "done"

C2_CommittedCreates ==
    /\ SlugsDistinct
    /\ \A w \in Writers :
          CreateDone(w) =>
            /\ \E e \in entries : e.slug = txn[w].slug
            /\ Cardinality({ e \in entries : e.slug = txn[w].base }) = 1
            /\ txn[w].collisions = 0 => txn[w].slug = txn[w].base
            /\ txn[w].collisions > 0 => Suffixed(txn[w].slug, txn[w].base)

\* C2: concurrent creates never commit two rows with one slug, so exactly
\* one row holds the unsuffixed slug; a create whose commit collides is
\* retried with a suffix, and every create that has begun ends committed.
C2_ConcurrentCreates ==
    /\ []C2_CommittedCreates
    /\ \A w \in Writers :
          (txn[w].op = "create" /\ txn[w].pc = "begun")
              ~> (txn[w].pc = "done")

C2_Witness ==
    /\ CreateDone("w1") /\ CreateDone("w2")
    /\ txn["w1"].snapshot = txn["w2"].snapshot
    /\ txn["w1"].base = txn["w2"].base
    /\ txn["w1"].slug = txn["w1"].base
    /\ txn["w2"].collisions = 1
    /\ txn["w2"].slug = candidate_slug(txn["w2"].base, 2)

\* C9: a read returns an Entry together with exactly the edge set that the
\* write of that row declared, also while a create or an update of the
\* Entry is in progress; it never returns edges of an Entry it does not
\* return.
C9_ReadsSeeEntryWithItsEdges ==
    /\ Cardinality(view.entry) <= 1
    /\ view.entry # {} => view.declared = { view.references }
    /\ view.entry = {} => view.references = {}

C9_Witness ==
    /\ view.racing # {}
    /\ view.entry # {}
    /\ view.references # {}
    /\ \E w \in view.racing :
          /\ txn[w].op = "update"
          /\ txn[w].pc = "refs_written"
          /\ txn[w].buffered # view.references

----------------------------------------------------------------------------
(* Properties of the Orchestrator *)

\* The transition graph as the specification lists it.
ListedTransitions ==
    { <<"IDLE", "CLASSIFYING">>,
      <<"CLASSIFYING", "IDLE">>,
      <<"CLASSIFYING", "EXTRACTING">>,
      <<"EXTRACTING", "ASSEMBLING">>,
      <<"ASSEMBLING", "AWAITING_COMPOSER_OUTPUT">>,
      <<"AWAITING_COMPOSER_OUTPUT", "EXTRACTING">>,
      <<"AWAITING_COMPOSER_OUTPUT", "AWAITING_APPROVAL">>,
      <<"AWAITING_APPROVAL", "COMMITTED">>,
      <<"AWAITING_APPROVAL", "DISCARDED">> }

\* The transitions the pipeline takes: every user turn is classified first,
\* whichever state it arrives in; a failed extraction ends the turn as plain
\* chat; a discarded entry returns the Orchestrator to IDLE.
PipelineTransitions ==
    (ListedTransitions \ { <<"AWAITING_COMPOSER_OUTPUT", "EXTRACTING">> })
    \cup { <<"AWAITING_COMPOSER_OUTPUT", "CLASSIFYING">>,
           <<"AWAITING_APPROVAL", "CLASSIFYING">>,
           <<"COMMITTED", "CLASSIFYING">>,
           <<"EXTRACTING", "IDLE">>,
           <<"DISCARDED", "IDLE">> }

\* C10, as stated: the Orchestrator only ever takes the transitions of the
\* listed graph, and COMMITTED is entered from AWAITING_APPROVAL only.
C10_ListedTransitionsOnly ==
    [][ /\ <<orch_state, orch_state'>> \in ListedTransitions
        /\ orch_state' = "COMMITTED" => orch_state = "AWAITING_APPROVAL"
      ]_orch_state

\* C10, amended: the Orchestrator only ever takes the transitions of the
\* listed graph with three differences: the next user turn after
\* AWAITING_COMPOSER_OUTPUT, AWAITING_APPROVAL or COMMITTED goes through
\* CLASSIFYING, not straight to EXTRACTING; EXTRACTING goes to IDLE when
\* the extractor call fails; DISCARDED goes to IDLE.  COMMITTED is entered
\* from AWAITING_APPROVAL only.
C10_PipelineTransitionsOnly ==
    [][ /\ <<orch_state, orch_state'>> \in PipelineTransitions
        /\ orch_state' = "COMMITTED" => orch_state = "AWAITING_APPROVAL"
      ]_orch_state

\* An entry assembled over the turns of the conversation has been approved
\* and saved.
C10_Witness ==
    /\ orch_state = "COMMITTED"
    /\ result.op = "create"
    /\ result.status = "ok"
    /\ \E e \in entries : e.slug = result.slug /\ e.name = accumulator.name

\* A producer-model call of the turn has just failed.
ProducerFails ==
    producer.outcome = "pending" /\ producer'.outcome \in Failures

\* C11: when the classifier or extractor call errors, times out or returns
\* a malformed response, the Orchestrator returns to IDLE with a null
\* context and no exception, the accumulator is as the turn found it, and
\* the store is unchanged.
C11_ProducerFailureFailsOpen ==
    [][ ProducerFails =>
          /\ orch_state' = "IDLE"
          /\ context' = NoContext
          /\ accumulator' = producer.before
          /\ accumulator' = accumulator
          /\ UNCHANGED <<entries, refs, fts, result>>
      ]_vars

\* The extractor failed in a turn that found fields accumulated, and a
\* turn before it had saved an entry.
C11_Witness ==
    /\ producer.step = "extract"
    /\ producer.outcome \in Failures
    /\ orch_state = "IDLE"
    /\ accumulator # EmptyAccumulator
    /\ entries # {}

\* The extraction of the turn is being merged into the accumulator.
ExtractionMerged == orch_state = "EXTRACTING" /\ orch_state' = "ASSEMBLING"

\* C12: a field the accumulator holds keeps its value through every step,
\* except that an extraction restating the field puts the newest value in
\* its place, and that discarding the entry removes it.
C12_AccumulatorGrowsOrOverwrites ==
    [][ \A f \in RequiredFields :
          accumulator[f] # EmptyAccumulator[f] =>
            \/ orch_state' = "DISCARDED"
            \/ /\ ExtractionMerged
               /\ producer'.fields[f] # EmptyAccumulator[f]
               /\ accumulator'[f] = producer'.fields[f]
            \/ /\ ~(ExtractionMerged /\ producer'.fields[f] # EmptyAccumulator[f])
               /\ accumulator'[f] = accumulator[f]
      ]_vars

\* Two extractions were merged: the second restated the name and did not
\* mention category or status, which are still there.
C12_Witness ==
    /\ Len(applied) >= 2
    /\ orch_state = "ASSEMBLING"
    /\ producer.fields = [ name |-> <<"k", " ", "2">>, category |-> "",
                           status |-> "" ]
    /\ producer.before.name = <<"k">>
    /\ accumulator.name = <<"k", " ", "2">>
    /\ accumulator.category = "criminal"
    /\ accumulator.status = "dead"

\* The step writes to the Entry Store, the Reference Graph or the Search
\* Index.
StoreWritten == <<entries, refs, fts>>' # <<entries, refs, fts>>

\* C13: the Orchestrator writes only on the step from AWAITING_APPROVAL to
\* COMMITTED that handles an approval signal; the write adds one entry,
\* and the edges it adds are exactly those to the suggested references
\* the user confirmed.
C13_WritesOnlyOnApproval ==
    [][ StoreWritten =>
          /\ orch_state = "AWAITING_APPROVAL"
          /\ orch_state' = "COMMITTED"
          /\ approval'.signals = 1
          /\ approval'.confirmed \subseteq context.suggested_references
          /\ \E e \in entries' \ entries :
                /\ entries' = entries \cup { e }
                /\ refs' = refs \cup reference_rows(e.slug, approval'.confirmed)
                /\ edges_from(refs, e.slug) = {}
      ]_vars

\* An approved entry was saved with an edge to the suggested reference the
\* user confirmed.
C13_Witness ==
    /\ orch_state = "COMMITTED"
    /\ approval.confirmed # {}
    /\ result.op = "create"
    /\ result.status = "ok"
    /\ edges_from(refs, result.slug) =
         reference_rows(result.slug, approval.confirmed)

\* The approval signal of an entry already approved is handled again.
ApprovalReplayed ==
    approval.signals >= 1 /\ approval'.signals = approval.signals + 1

\* C14: replaying the approval signal for an entry that is already
\* committed changes neither the entries nor the edges nor the index, and
\* leaves the Orchestrator in COMMITTED: no second, suffixed entry appears.
C14_ApprovalReplayIsNoOp ==
    [][ ApprovalReplayed =>
          /\ UNCHANGED <<entries, refs, fts>>
          /\ orch_state = "COMMITTED"
          /\ orch_state' = "COMMITTED"
      ]_vars

\* The approval that saved an entry with a confirmed reference was
\* replayed.
C14_Witness ==
    /\ approval.signals = 2
    /\ approval.confirmed # {}
    /\ orch_state = "COMMITTED"
    /\ result.op = "create"
    /\ result.status = "ok"
    /\ \E e \in entries : e.slug = result.slug /\ e.name = accumulator.name

\* C15: rejecting the entry under review clears the accumulator and
\* writes nothing; from DISCARDED the Orchestrator goes to IDLE and nowhere
\* else; and while the entry stands discarded, the entries, the edges and
\* the index are what they were before its conversation began.
C15_RejectionStep ==
    /\ (orch_state = "AWAITING_APPROVAL" /\ orch_state' = "DISCARDED") =>
          /\ accumulator' = EmptyAccumulator
          /\ UNCHANGED <<entries, refs, fts>>
    /\ (orch_state = "DISCARDED" /\ orch_state' # "DISCARDED") =>
          /\ orch_state' = "IDLE"
          /\ accumulator' = EmptyAccumulator
          /\ UNCHANGED <<entries, refs, fts>>
    /\ orch_state' = "DISCARDED" =>
          /\ accumulator' = EmptyAccumulator
          /\ <<entries', refs', fts'>> = baseline'

C15_RejectionClearsAndWritesNothing == [][C15_RejectionStep]_vars

\* After an entry was saved, a later entry of the conversation was
\* assembled, rejected, and the Orchestrator is back in IDLE.
C15_Witness ==
    /\ orch_state = "IDLE"
    /\ accumulator = EmptyAccumulator
    /\ Len(applied) >= 2
    /\ entries # {}
    /\ producer = NoCall
    /\ approval = NoApproval
    /\ context = NoContext
    /\ Len(dispatched) = Len(applied)

StepOutstanding == { "CLASSIFYING", "EXTRACTING", "ASSEMBLING" }

Ids(msgs) == [ i \in 1..Len(msgs) |-> msgs[i].id ]

Increasing(ids) == \A i, j \in 1..Len(ids) : i < j => ids[i] < ids[j]

\* At most one message has a step outstanding; the messages dispatched so
\* far followed by those still waiting are all the messages that arrived,
\* in arrival order; extractions were merged in arrival order.
C16_QueueInOrder ==
    /\ Cardinality(in_flight) <= 1
    /\ (in_flight # {}) <=> (orch_state \in StepOutstanding)
    /\ Ids(dispatched) \o Ids(inbox) = [ i \in 1..(next_msg - 1) |-> i ]
    /\ in_flight \subseteq
         { dispatched[i].id : i \in { Len(dispatched) } \ { 0 } }
    /\ Increasing(applied)
    /\ \A i \in 1..Len(applied) :
          \E j \in 1..Len(dispatched) : dispatched[j].id = applied[i]

\* C16: within the conversation at most one classification, extraction or
\* assembly step is outstanding; a message arriving meanwhile waits and is
\* dispatched after it, in arrival order; extractions are merged in
\* message order; every message that arrived is eventually dispatched.
C16_OneStepInFlightMessagesInOrder ==
    /\ []C16_QueueInOrder
    /\ \A m \in 1..MaxMessages :
          (next_msg > m) ~> (\E j \in 1..Len(dispatched) : dispatched[j].id = m)

\* A message that arrived while the step of the one before it was
\* outstanding has had its extraction merged after that one's.
C16_Witness ==
    /\ Len(applied) >= 2
    /\ \E j \in 1..Len(dispatched) :
          /\ dispatched[j].waited
          /\ dispatched[j].id = applied[Len(applied)]
          /\ dispatched[j].id - 1 = applied[Len(applied) - 1]

----------------------------------------------------------------------------
(* Properties of the Foundry export *)

\* C17: the placeholder ID is a function of the slug alone: all exports
\* of a slug, whatever the call, the batch and the contents of the store,
\* gave it the same ID.
C17_PlaceholderIsFunctionOfSlug ==
    \A a, b \in id_history : a.slug = b.slug => a.id = b.id

\* The same slug was exported before and after a write to the store, the
\* last time in a batch with another entry.
C17_Witness ==
    /\ \E a, b \in id_history : a.slug = b.slug /\ a.at # b.at
    /\ export.op = "export_batch_to_foundry"
    /\ Cardinality(export.id_map) = 2
    /\ \E m \in export.id_map, a \in id_history :
          m.slug = a.slug /\ a.at < clock

\* C18: an identity that id_overrides gives a slug stands in place of the
\* computed placeholder wherever the slug appears in the output: in the
\* manifest's id_map and in every relationship that targets the slug.
C18_OverridesUsedEverywhere ==
    \A o \in export.request.id_overrides :
        /\ \A m \in export.id_map : m.slug = o.slug => m.id = o.id
        /\ \A i \in 1..Len(export.entries) :
              \A r \in export.entries[i].relationships :
                  r.target_slug = o.slug => r.id = o.id

Documents(output) == { output.entries[i] : i \in 1..Len(output.entries) }

\* Two documents of the output whose entries reference each other carry
\* each other's identity, as the manifest gives it.
MutualReferencesResolve(output, edges) ==
    \A d, t \in Documents(output) :
        ( /\ \E e \in edges : e.source_slug = d.slug /\ e.target_slug = t.slug
          /\ \E e \in edges : e.source_slug = t.slug /\ e.target_slug = d.slug )
        => \E r \in d.relationships, m \in output.id_map :
              r.target_slug = t.slug /\ m.slug = t.slug /\ r.id = m.id

\* C19, as stated: every identity in a document's reference list is the
\* id_map's value for some slug of the batch, the one its target was
\* exported under; entries that reference each other, exported together,
\* carry each other's identity.
C19_EveryReferenceInIdMap ==
    /\ \A d \in Documents(export) : \A r \in d.relationships :
          \E m \in export.id_map : m.slug = r.target_slug /\ m.id = r.id
    /\ MutualReferencesResolve(export, refs)

\* C19, amended: every document of a batch is in the manifest's id_map; an
\* identity in a document's reference list is the one its target is
\* exported under, in this batch and in any other export, and is the
\* id_map's value whenever the target is in the batch, which it need not
\* be; entries that reference each other, exported together, carry each
\* other's identity.
C19_ReferencesResolveWithinBatch ==
    [][ export' # export =>
          /\ \A d \in Documents(export') :
                /\ \E m \in export'.id_map : m.slug = d.slug
                /\ \A r \in d.relationships :
                      /\ \A m \in export'.id_map :
                            m.slug = r.target_slug => m.id = r.id
                      /\ \A h \in id_history' :
                            h.slug = r.target_slug => h.id = r.id
          /\ MutualReferencesResolve(export', refs')
      ]_vars

\* Two entries that reference each other were exported together, from
\* one of them with include_related.
C19_Witness ==
    /\ export.op = "export_to_foundry"
    /\ export.request.include_related
    /\ Cardinality(export.id_map) = 2
    /\ \E d, t \in Documents(export) :
          /\ d.slug # t.slug
          /\ \E r \in d.relationships : r.target_slug = t.slug
          /\ \E r \in t.relationships : r.target_slug = d.slug

\* The slugs an export call asks for: those of the list, or the seed with,
\* under include_related, the targets of its own outbound references.
Requested(output, edges) ==
    { output.request.slugs[i] : i \in 1..Len(output.request.slugs) }
    \cup IF output.request.include_related
         THEN { e.target_slug :
                  e \in edges_from(edges, output.request.slugs[1]) }
         ELSE {}

\* The output holds a document for exactly the requested slugs that have
\* an entry of a type with a formatter, and its id_map exactly their slugs.
PartialOnFailure(output, table, edges) ==
    LET good == { slug \in Requested(output, edges) :
                    /\ slug \in slugs_of(table)
                    /\ entry_at(table, slug).type \in formatter_map }
    IN /\ { d.slug : d \in Documents(output) } = good
       /\ { m.slug : m \in output.id_map } = good
       /\ \A d \in Documents(output) : d.status = "ok"

\* C20: a slug of a batch that has no entry, or an entry of a type with no
\* formatter, fails alone: the other slugs are exported and the id_map
\* holds exactly the exported slugs.  With include_related the seed and
\* the targets of its own references are exported, one hop and no
\* further, and a missing target is skipped without error.  The one call
\* that fails whole is the export of a seed that does not export.
C20_BatchExportIsPartial ==
    [][ export' # export =>
          IF export'.status = "ok"
          THEN PartialOnFailure(export', entries', refs')
          ELSE /\ export'.op = "export_to_foundry"
               /\ export'.request.slugs[1] \notin slugs_of(entries')
               /\ export'.entries = <<>>
               /\ export'.id_map = {}
      ]_vars

\* A seed was exported with include_related while one target of its
\* references exists and another does not.
C20_Witness ==
    /\ export.op = "export_to_foundry"
    /\ export.status = "ok"
    /\ export.request.include_related
    /\ Len(export.entries) = 2
    /\ \E e \in edges_from(refs, export.request.slugs[1]) :
          e.target_slug \notin slugs_of(entries)
    /\ \E e \in edges_from(refs, export.request.slugs[1]) :
          e.target_slug \in slugs_of(entries)
    /\ { m.slug : m \in export.id_map } \subseteq slugs_of(entries)

----------------------------------------------------------------------------
(* Properties of find_related *)

Items(output) == { output.related[i] : i \in 1..Len(output.related) }

\* In the returned list every entry with a direct reference to or from the
\* source stands before every entry related by text similarity alone, and
\* no such entry of the store is cut off while a text-only entry is kept.
DirectOutranksTextOnly(output, table, edges, index) ==
    /\ \A i, j \in 1..Len(output.related) :
          /\ output.related[i].direct
          /\ output.related[j].graph = 0
          => i < j
    /\ (\E t \in Items(output) : t.graph = 0) =>
          \A e \in table :
              /\ e.slug # output.slug
              /\ direct_reference(edges, entry_at(table, output.slug), e)
              => \E d \in Items(output) : d.slug = e.slug

\* Neighbours in the list with equal summed score stand in alphabetical
\* order of name.
TiesByName(output) ==
    \A i, j \in 1..Len(output.related) :
        /\ i < j
        /\ output.related[i].score = output.related[j].score
        => ~name_before(output.related[j].name, output.related[i].name)

\* Two entries related to the source of the last call that the ranking
\* cannot tell apart: same summed score, same name.
IndistinguishableTie(table, edges, index, slug) ==
    \E a, b \in related_candidates(table, edges, index,
                                   entry_at(table, slug)) :
        /\ a # b
        /\ a.name = b.name
        /\ related_score(edges, index, entry_at(table, slug), a)
             = related_score(edges, index, entry_at(table, slug), b)

----------------------------------------------------------------------------
(* Properties of the chat client *)

\* The last step was a call of sendMessage or of MessageInput.submit with
\* content that trims to nothing.
EmptySend(event) ==
    /\ event.op \in { "sendMessage", "submit" }
    /\ trim(event.content) = <<>>

\* C22: a call of useChat.sendMessage or of MessageInput.submit whose
\* trimmed content is empty returns without adding a message to the list,
\* without creating a conversation and without starting a stream.
C22_EmptyMessageIsNotSent ==
    [][EmptySend(chat_event') =>
          UNCHANGED <<messages, conversations, server_conversations,
                      server_messages, requests, streams, isStreaming,
                      abortControllerRef, next_conversation, next_stream>>]_vars

\* Whitespace was submitted through the input while no stream was running
\* and a conversation was active.
C22_Witness ==
    /\ chat_event.op = "submit"
    /\ chat_event.refused
    /\ chat_event.content = << " " >>
    /\ ~isStreaming
    /\ activeConversation # NoConversation

\* C23: every call of useStream.stream settles with isStreaming false and
\* the abort controller cleared; it returns the done payload only when a
\* done event was received, returns null and sets the error on an error
\* event or a network failure, and returns null without setting an error
\* when stop() or the unmount aborted it.
C23_StreamSettles ==
    [][stream_return' # NoReturn =>
          /\ ~isStreaming'
          /\ abortControllerRef' = NoController
          /\ stream_return'.returned # NoPayload
                <=> stream_return'.outcome = "done"
          /\ stream_return'.outcome \in { "error", "network" } =>
                /\ streamError' # ""
                /\ error' = streamError'
          /\ stream_return'.outcome = "aborted" =>
                UNCHANGED <<streamError, error>>]_vars

\* A call was aborted by stop() while no error was shown, and returned
\* null.
C23_Witness ==
    /\ stream_return.outcome = "aborted"
    /\ stream_return.returned = NoPayload
    /\ mounted
    /\ ~isStreaming
    /\ error = ""

\* No load, reload or other request is outstanding and no stream runs.
Settled == requests = {} /\ streams = {}

\* C27 (as stated): the messages list belongs to the active conversation:
\* once all outstanding loads and streams have settled, every message of
\* it is a message of activeConversationId, also when a load or a stream
\* of another conversation completes after the user has moved on.
C27_MessagesBelongToActive ==
    Settled =>
        \A i \in 1..Len(messages) :
            messages[i].conversation_id = activeConversationId

Placeholders(list) ==
    { i \in 1..Len(list) : list[i].id = TEMP_ASSISTANT_ID }

\* C29: the messages list holds at most one message with id
\* 'temp-assistant-stream', and none once no stream is in flight; a stream
\* that fails or is stopped takes the placeholder away and leaves every
\* other message, the user's among them, and a done event gives the
\* placeholder the server's message_id.
C29_OnePlaceholder ==
    [][/\ Cardinality(Placeholders(messages')) <= 1
       /\ streams' = {} => Placeholders(messages') = {}
       /\ stream_return'.outcome \in { "error", "network", "closed", "aborted" } =>
             messages' =
                SelectSeq(messages, LAMBDA m : m.id # TEMP_ASSISTANT_ID)
       /\ stream_return'.outcome = "done" =>
             /\ Len(messages') = Len(messages)
             /\ \A i \in 1..Len(messages) :
                   IF i \in Placeholders(messages)
                   THEN /\ messages'[i].id =
                              stream_return'.returned.message_id
                        /\ messages'[i].id.kind = "server"
                   ELSE messages'[i] = messages[i]]_vars

\* A stream failed on an error event: the placeholder is gone and the
\* user's temporary message is still in the list.
C29_Witness ==
    /\ stream_return.outcome = "error"
    /\ Placeholders(messages) = {}
    /\ \E i \in 1..Len(messages) : messages[i].id.kind = "temp-user"

\* C30 (as stated): after the operations have settled, activeConversationId
\* is null or the id of a conversation in the conversations list.
C30_ActiveIsListed ==
    Settled =>
        \/ activeConversationId = NoConversation
        \/ activeConversationId \in ids_of(conversations)

----------------------------------------------------------------------------
(* Properties of the message input *)

\* The first conversation is the only one and active: MessageInput has
\* been rendered since it was created.
InputKept == conversations = << 1 >> /\ activeConversationId = 1

\* How often paste n of paste_log, or quote n, was put into the input.
Insertions(kind, n) ==
    Cardinality({ i \in 1..Len(insert_log) :
                    insert_log[i].kind = kind /\ insert_log[i].n = n })

\* C24 (as stated): a paste of more than 50 characters made while "don't
\* ask again" is off is intercepted, and for every sequence of paste,
\* label, skip and timer events each intercepted text is inserted into the
\* input exactly once: never twice, and once when no prompt is open any
\* more; none is lost.
C24_InterceptedPasteInsertedOnce ==
    InputKept =>
        \A n \in 1..Len(paste_log) :
            /\ length(paste_log[n].text) > LARGE_PASTE_THRESHOLD
                  => paste_log[n].intercepted \/ skipPastePrompt
            /\ paste_log[n].intercepted =>
                  /\ Insertions("paste", n) <= 1
                  /\ pendingPaste = NoPaste => Insertions("paste", n) = 1

QuoteInsertions ==
    SelectSeq(insert_log, LAMBDA e : e.kind = "quote")

\* C25 (as stated): each Quote action inserts its text into the message
\* input exactly once, the quotes come in the order they were made, and
\* nothing that happens later inserts a quote again.
C25_EachQuoteInsertedOnce ==
    /\ Len(QuoteInsertions) = quoteInsertCounterRef
    /\ \A i \in 1..Len(QuoteInsertions) : QuoteInsertions[i].n = i

----------------------------------------------------------------------------
(* Properties of the settings panel *)

\* C26 (as stated): the default system prompt is never deleted, and a
\* delete request is only issued for a prompt that is not the default,
\* also while a set-default request for that prompt is in flight.
C26_DeleteOnlyNonDefault ==
    [][/\ server_default' \in server_prompts'
       /\ \A req \in prompt_requests' \ prompt_requests :
             (req.kind = "delete" /\ req.phase = "sent")
                => req.id # server_default]_vars

\* C26: the default system prompt is never deleted: the backend refuses
\* to delete it, and the panel issues a delete request only for a prompt
\* that its own list shows as not default; while a set-default request for
\* a prompt is in flight its Delete button stays enabled.
C26_DefaultNeverDeleted ==
    [][/\ server_default' \in server_prompts'
       /\ \A req \in prompt_requests' \ prompt_requests :
             (req.kind = "delete" /\ req.phase = "sent")
                => shown(req.id) /\ ~shown_default(req.id)]_vars

\* A delete request for a prompt that became the default while its
\* set-default request was in flight has been refused, and the prompt is
\* still there.
C26_Witness ==
    \E req \in prompt_requests :
        /\ req.kind = "delete"
        /\ req.phase = "answered"
        /\ ~req.ok
        /\ req.id = server_default
        /\ req.id \in server_prompts
        /\ ~shown_default(req.id)

----------------------------------------------------------------------------
(* Properties of the pinned context *)

\* The conversation ChatView holds after the step.
active_after ==
    IF activeConversationId' \in ids_of(conversations')
    THEN activeConversationId' ELSE NoConversation

\* The pins a step puts into the list.
pins_added == { pins'[i] : i \in 1..Len(pins') } \ shown_pins

\* C31 as stated, in its clause on late responses: whatever a getPins or
\* createPin response puts into the pins list is a pin of the conversation
\* that is active when it arrives. The code does not keep this: handlePin
\* has no cancellation, so the pin of a createPin answered after the user
\* went to another conversation is put in front of that conversation's pins.
C31_ResponsesAddOnlyActivePins ==
    [][\A pin \in pins_added : pin.conversation_id = active_after]_vars

----------------------------------------------------------------------------
(* Properties of the settings panel *)

shown_defaults == { item \in prompts : item.is_default }

\* C32 as stated: once every prompt request has settled, at most one prompt
\* of the panel has is_default, and after the user has checked a Default box
\* that prompt is the one checked last, whatever the order of the responses.
\* The code does not keep this: each response of handlePromptChange rewrites
\* the list from its own request, so the response that arrives last wins, and
\* the row of a content update carries the is_default it had on the backend.
C32_OneDefaultTheLastSet ==
    prompt_requests = {} =>
        /\ Cardinality(shown_defaults) <= 1
        /\ default_asked # 0 =>
              shown_defaults = { item \in prompts : item.id = default_asked }

----------------------------------------------------------------------------
(* Properties of the stream reader *)

\* The events of the response that are complete: each but the last is
\* followed by its blank line, the last one when two newlines follow it.
complete_events ==
    IF sse_sent.tail = 2 THEN sse_sent.events
    ELSE SubSeq(sse_sent.events, 1, Len(sse_sent.events) - 1)

\* Of these, the ones whose last byte has been read.
bytes_read == Len(body_of(sse_sent.events, sse_sent.tail)) - Len(response_body)

arrived ==
    SubSeq(complete_events, 1,
           IF bytes_read \div 4 < Len(complete_events)
           THEN bytes_read \div 4 ELSE Len(complete_events))

RECURSIVE contents(_)
contents(events) ==
    IF events = <<>> THEN <<>>
    ELSE (IF Head(events).type = "delta" THEN << Head(events).content >>
          ELSE <<>>) \o contents(Tail(events))

has(events, type) == \E i \in 1..Len(events) : events[i].type = type

RECURSIVE sum(_)
sum(sizes) == IF sizes = <<>> THEN 0 ELSE Head(sizes) + sum(Tail(sizes))

=============================================================================
